---------------------------- MODULE Spec2Model ----------------------------
(***************************************************************************)
(* State-machine model of the MK5717 clock firmware                        *)
(* (src/MK5717_Clock_OTA.ino): debounced switches multiplexed on the       *)
(* display scan, the display-mode sequencer, the set-mode editor, the      *)
(* alarm engine and the persisted emulation/model pair.                    *)
(*                                                                         *)
(* The program's globals, function statics and the devices it drives       *)
(* (EEPROM bytes, DS3231 registers, the ezTime clock) are the fields of    *)
(* the record m.  Every handler of the sketch is an operator from a        *)
(* record (and the values the handler reads from the hardware) to the      *)
(* record it leaves behind; an action applies one handler, or the whole    *)
(* loop() body, to m.                                                      *)
(*                                                                         *)
(* uint32_t values are kept in two's complement (a value v >= 2^31 is      *)
(* written v - 2^32), so that + and - wrap as the C code does and the      *)
(* unsigned comparisons are U32Gt / U32Ge.                                 *)
(***************************************************************************)
EXTENDS Integers, Sequences, FiniteSets, TLC

VARIABLES
    m,       \* program globals, statics and device registers
    pc,      \* position of the main task
    micros,  \* the hardware microsecond counter read by micros()
    held,    \* physical switches currently closed (subset of 1..7)
    mains,   \* TRUE while the 60 Hz line is present on sw_HOLD_Pin
    iter,    \* number of steps taken (bounds the run)
    toggles, \* number of changes of the physical inputs (bounds the run)
    ev,      \* the last step: which handler ran and what it read
    clock,   \* true elapsed microseconds (never wraps)
    hist     \* per switch: the debounceSwitch calls made so far

vars == <<m, pc, micros, held, mains, iter, toggles, ev, clock, hist>>

----------------------------------------------------------------------------
(* Program constants *)

debounceDelay == 1000
NUM_DIGITS == 6
HALF_OFFSET_US == 500000
HOLD_TIMEOUT_US == 100000
SNOOZE_MIN == 7
ALARM_MAX_MIN == 60
BatteryBackup == 2
showdatesec == 10
HW_DATE_SECONDS == 5
ontime == 73000
offtime == 180000
EmulationCount == 2
ModelCount == 5
GRACE_MS == 50
RELEASE_COOLDOWN_MS == 500
otaTimeout == 600000
RESET_WINDOW_MS == 5000
SETUP_DELAY_US == 1000000
SETUP_STEP_US == 25000
SETUP_CHECKS == 8
MODEL_MSG_COUNT == 4
MSG_EIGHTS == 7
MSG_DASHES == 8
MSG_BLANK == 9
HR_UNSET == 255

\* enum Emulation, enum Model
WIFI == 0
MK5017 == 1
MODEL_GC_1005 == 0
MODEL_GC_1092D == 1
MODEL_GC_1092A == 2
MODEL_GC_1094 == 3
MODEL_BOGUS == 4
defaultEmulation == WIFI
defaultModel == MODEL_GC_1005

\* switch numbering: sw_1 .. sw_7, sw_HOLD
SW_HOLD == 8
Switches == 1..8

----------------------------------------------------------------------------
(* Bounds of the model *)

MaxCalls == 4            \* debounceSwitch calls in a SpecDebounce run
MaxIter == 7             \* setup() runs and loop() iterations in a SpecLoop run
MaxToggles == 2          \* changes of the physical inputs in a SpecLoop run
LoopMicros == 250000     \* microseconds from one loop() iteration to the next
MaxAlarmSeconds == 3605  \* seconds followed after the alarm time in SpecAlarm
SeqMaxIter == 48         \* loop() iterations in a SpecSeq run
MaxTouches == 4          \* touch sensor crossings in a SpecSeq run
MaxEditSteps == 1        \* increment pulses in a SpecEdit run
MaxSnoozeCalls == 2      \* requestSnooze calls in a SpecSnooze run
SnoozeStride == 600      \* spacing of the sampled times of day in SpecSnooze
BootMaxIter == 6         \* setup() runs and loop() iterations in a SpecBoot run
GestureMaxIter == 13     \* setup() runs and loop() iterations in a SpecGesture run
GestureMaxToggles == 5   \* movements of the time-set switch in a SpecGesture run
GestureMicros == 600000  \* microseconds from one loop() iteration to the next in SpecGesture
BackupStride == 1800     \* seconds between the sampled refresh times and outage lengths in SpecBackup
MaxOutageSeconds == 97200  \* longest outage in SpecBackup (27 h)
OtaMaxIter == 6          \* setup() runs and loop() iterations in a SpecOta run
OtaIdleMicros == 350000000  \* microseconds to the next loop() iteration when the loop was held up in SpecOta
MaxNapSeconds == 425     \* seconds followed after a snooze in SpecNap
NapMaxWait == 12         \* loop() iterations before the snooze is accepted in SpecNap
NapMicros == 500000      \* microseconds from one loop() iteration to the next in SpecNap
SchedMaxIter == 30       \* loop() iterations in a SpecSched run
SchedMaxTouches == 5     \* touch sensor crossings in a SpecSched run
SchedMicros == 500000    \* microseconds from one loop() iteration to the next in SpecSched
EditorMaxIter == 7       \* setup() runs and loop() iterations in a SpecEditor run
EditorMaxToggles == 2    \* changes of the physical inputs in a SpecEditor run
EditorMicros == 500000   \* microseconds from one loop() iteration to the next in SpecEditor
ScanMaxCalls == 3        \* CheckSwitches calls in a SpecScan run
ScanMaxRefresh == 7      \* displayTask rounds in a SpecScan run
ScanMicros == 600        \* microseconds from one CheckSwitches call to the next in SpecScan
ToneMaxIter == 18        \* setup() runs and loop() iterations in a SpecTone run
ToneMaxToggles == 2      \* movements of the snooze and alarm switches in a SpecTone run
MaxExitSecond == 59      \* last second of the minute at which a SpecExit edit is entered
MaxExitWait == 2         \* seconds an edit of SpecExit stays open before its commit
ShowMaxIter == 26        \* loop() iterations in a SpecShow run
ShowMicros == 500000     \* microseconds from one loop() iteration to the next in SpecShow
MaxExitHour == 23        \* last hour of the day at which a DATE edit of SpecExit is entered
ModelMaxIter == 10       \* setup() runs and loop() iterations in a SpecModel run
ModelMicros == 500000    \* microseconds from one loop() iteration to the next in SpecModel

----------------------------------------------------------------------------
(* uint32_t arithmetic in two's complement *)

U32Gt(x, y) == IF (x < 0) = (y < 0) THEN x > y ELSE x < 0
U32Ge(x, y) == x = y \/ U32Gt(x, y)
\* a - b modulo 2^32
Sub32(a, b) ==
    IF (a >= 0) = (b >= 0) THEN a - b
    ELSE IF a >= 0
         THEN IF a > 2147483647 + b
              THEN (a - 2147483647 - 1) - (b + 2147483647 + 1)
              ELSE a - b
         ELSE IF a < (b - 2147483647) - 1
              THEN (a + 2147483647 + 1) - (b - 2147483647 - 1)
              ELSE a - b
\* a + b modulo 2^32
Add32(a, b) ==
    IF a >= 0 /\ b >= 0 /\ a > 2147483647 - b
    THEN (a - 2147483647 - 1) + (b - 2147483647 - 1)
    ELSE IF a < 0 /\ b < 0 /\ a < (-2147483647 - 1) - b
         THEN (a + 2147483647 + 1) + (b + 2147483647 + 1)
         ELSE a + b

----------------------------------------------------------------------------
(* DebouncedSwitch *)

NewSwitch == [state |-> FALSE, changed |-> FALSE, lastRead |-> FALSE,
              lastChange |-> 0, changedAt |-> 0]

\* the plausible slip: ">=" for ">"
QuietLongEnoughGe(nowMicros, lastChange) ==
    U32Ge(Sub32(nowMicros, lastChange), debounceDelay)

\* a quiet interval that is accepted: strictly longer than debounceDelay
QuietLongEnough(nowMicros, lastChange) ==
    U32Gt(Sub32(nowMicros, lastChange), debounceDelay)

\* a raw transition restarts the quiet timer
RestartQuietTimer(sw, raw, nowMicros) ==
    IF raw # sw.lastRead THEN nowMicros ELSE sw.lastChange

debounceSwitch(sw, raw, nowMicros) ==
    LET lc  == RestartQuietTimer(sw, raw, nowMicros)
        acc == QuietLongEnough(nowMicros, lc) /\ raw # sw.state
    IN  [state      |-> IF acc THEN raw ELSE sw.state,
         changed    |-> acc,
         lastRead   |-> raw,
         lastChange |-> lc,
         changedAt  |-> sw.changedAt]

----------------------------------------------------------------------------
(* The time source (ezTime Timezone tz): day of the year 2025, second of   *)
(* the day and the microseconds into the current second.  setTime encodes  *)
(* its fields, hour()/minute()/second()/month()/day() decode them.         *)

DaysBefore(mo) ==
    CASE mo = 1 -> 0   [] mo = 2 -> 31  [] mo = 3 -> 59  [] mo = 4 -> 90
      [] mo = 5 -> 120 [] mo = 6 -> 151 [] mo = 7 -> 181 [] mo = 8 -> 212
      [] mo = 9 -> 243 [] mo = 10 -> 273 [] mo = 11 -> 304 [] OTHER -> 334

tzSetTime(h, mi, s, d, mo) ==
    LET total == h * 3600 + mi * 60 + s
    IN  [doy |-> (DaysBefore(mo) + (d - 1) + (total \div 86400)) % 365,
         sod |-> total % 86400,
         us  |-> 0]

tzHour(tz)   == tz.sod \div 3600
tzMinute(tz) == (tz.sod \div 60) % 60
tzSecond(tz) == tz.sod % 60
tzMonth(tz)  == CHOOSE mo \in 1..12 :
                   /\ DaysBefore(mo) <= tz.doy
                   /\ (mo = 12 \/ tz.doy < DaysBefore(mo + 1))
tzDay(tz)    == tz.doy - DaysBefore(tzMonth(tz)) + 1
\* 0 = Sunday; 1 January 2025 is a Wednesday
tzWeekday(tz) == (3 + tz.doy) % 7
\* tz.dateTime("His").toInt()
tzHHMMSS(tz) == tzHour(tz) * 10000 + tzMinute(tz) * 100 + tzSecond(tz)

\* one second passes
tzAdvance(tz) ==
    IF tz.sod = 86399
    THEN [tz EXCEPT !.sod = 0, !.doy = (tz.doy + 1) % 365]
    ELSE [tz EXCEPT !.sod = tz.sod + 1]

tzBoot == [doy |-> 0, sod |-> 0, us |-> 0]

----------------------------------------------------------------------------
(* The battery-backed clock (RTC_DS3231 rtc): calendar registers and two   *)
(* alarm slots.                                                            *)

DateTime(mo, d, h, mi, s) == [mo |-> mo, d |-> d, h |-> h, mi |-> mi, s |-> s]

rtcNow(rtc) == DateTime(rtc.mo, rtc.d, rtc.h, rtc.mi, rtc.s)

rtcAdjust(rtc, dt) ==
    [rtc EXCEPT !.mo = dt.mo, !.d = dt.d, !.h = dt.h, !.mi = dt.mi,
                !.s = dt.s, !.us = 0]

\* DateTime + TimeSpan(0, hours, 0, 0), through the day of the year
PlusHours(dt, hours) ==
    LET total == dt.h + hours
        doy   == (DaysBefore(dt.mo) + (dt.d - 1) + (total \div 24)) % 365
        t     == [doy |-> doy, sod |-> 0, us |-> 0]
    IN  DateTime(tzMonth(t), tzDay(t), total % 24, dt.mi, dt.s)

rtcSetClock(rtc, nx) ==
    [rtc EXCEPT !.mo = nx.mo, !.d = nx.d, !.h = nx.h, !.mi = nx.mi,
                !.s = nx.s]

rtcNextSecond(rtc, sod) ==
    IF sod = 86399
    THEN PlusHours(DateTime(rtc.mo, rtc.d, 23, 0, 0), 1)
    ELSE DateTime(rtc.mo, rtc.d, (sod + 1) \div 3600,
                  ((sod + 1) \div 60) % 60, (sod + 1) % 60)

rtcAdvance(rtc) ==
    rtcSetClock(rtc, rtcNextSecond(rtc, rtc.h * 3600 + rtc.mi * 60 + rtc.s))

\* clearRTC(): both alarm slots to 1 January 00:00:00
clearRTC(rtc) ==
    [rtc EXCEPT !.a1 = DateTime(1, 1, 0, 0, 0), !.a2 = DateTime(1, 1, 0, 0, 0)]

rtcFactory == [mo |-> 1, d |-> 1, h |-> 0, mi |-> 0, s |-> 0, us |-> 0,
               a1 |-> DateTime(1, 1, 0, 0, 0), a2 |-> DateTime(1, 1, 0, 0, 0)]

----------------------------------------------------------------------------
(* The globals of the sketch as their initialisers leave them, with the    *)
(* devices that keep their content over a restart.                         *)

BootGlobals(eeprom, rtc) ==
    [ \* devices
      eeprom |-> eeprom, rtc |-> rtc, tz |-> tzBoot,
      \* switches
      sw |-> [i \in Switches |-> NewSwitch],
      holdLastRead |-> FALSE, holdLastTransition |-> 0,
      Disable_swHOLD |-> FALSE,
      \* display
      curdigit |-> 0,
      currentDisplayMode |-> "MODE_MESSAGE", messageindex |-> MSG_EIGHTS,
      datecounter |-> 0, manualOverride |-> FALSE,
      overrideForBlank |-> FALSE, touchoverride |-> FALSE,
      \* emulation
      info |-> [emulation |-> WIFI, model |-> MODEL_GC_1005],
      \* touch
      touchActive |-> FALSE, lastTouchActive |-> TRUE, testingLower |-> TRUE,
      lastChangeTime |-> 0, lastD555EndTime |-> 0, prevComputed |-> TRUE,
      sw_6_changed_last |-> FALSE, wasD555 |-> FALSE,
      \* timing pulses
      is24HourMode |-> FALSE, secondEdgeMicros |-> 0, halfSecond |-> FALSE,
      topOfSecond |-> FALSE, halfSecondFired |-> FALSE, lastMinuteSeen |-> 0,
      \* set mode
      hr24 |-> HR_UNSET, minutes |-> 0, seconds |-> 0,
      displaystring |-> <<>>,
      activeTarget |-> "EDIT_TIME", inEditMode |-> FALSE, dateSet |-> FALSE,
      dateChanged |-> FALSE, autoDate |-> FALSE,
      \* alarm
      alarmState |-> "ALARM_IDLE", alarmDT |-> DateTime(1, 1, 0, 0, 0),
      alarmSet |-> FALSE, alarmEnabled |-> FALSE, timeSeconds |-> -1,
      alarmSeconds |-> 0, snoozeTargetS |-> 0, toneActive |-> FALSE,
      \* OTA, restart gesture, NTP watchdog
      otaModeActive |-> FALSE, otaStartTime |-> 0, wifiMode |-> "WIFI_OFF",
      timeSetCount |-> 0, startTime |-> 0, lastCheck |-> 0,
      \* ESP.restart() was called
      restart |-> FALSE ]

----------------------------------------------------------------------------
(* Switch Multiplex Reader *)

\* the level of the two sense lines while digit-select index d is driven
RawKA(h, d) == \/ (d = 1 /\ 1 \in h)
               \/ (d = 2 /\ 3 \in h)
               \/ (d = 3 /\ 5 \in h)
               \/ (d = 4 /\ 7 \in h)
RawKB(h, d) == \/ (d = 1 /\ 2 \in h)
               \/ (d = 2 /\ 4 \in h)
               \/ (d = 3 /\ 6 \in h)

\* the multiplexed part of CheckSwitches: cd is the scan index it reads
MuxSwitches(sw, cd, KA, KB, now) ==
    CASE cd = 1 -> [sw EXCEPT ![1] = debounceSwitch(@, KA, now),
                              ![2] = debounceSwitch(@, KB, now)]
      [] cd = 2 -> [sw EXCEPT ![3] = debounceSwitch(@, KA, now),
                              ![4] = debounceSwitch(@, KB, now)]
      [] cd = 3 -> [sw EXCEPT ![5] = debounceSwitch(@, KA, now),
                              ![6] = debounceSwitch(@, KB, now)]
      [] cd = 4 -> [sw EXCEPT ![7] = debounceSwitch(@, KA, now)]
      [] OTHER  -> sw

\* in: [cd, KA, KB, hold, now]
CheckSwitches(s, in) ==
    LET sw1   == MuxSwitches(s.sw, in.cd, in.KA, in.KB, in.now)
        lt    == IF in.hold # s.holdLastRead THEN in.now
                 ELSE s.holdLastTransition
        rawHz == U32Gt(Sub32(in.now, lt), HOLD_TIMEOUT_US)
                 /\ ~s.Disable_swHOLD
    IN  [s EXCEPT !.sw = [sw1 EXCEPT ![SW_HOLD] =
                              debounceSwitch(@, rawHz, in.now)],
                  !.holdLastRead = in.hold,
                  !.holdLastTransition = lt]

----------------------------------------------------------------------------
(* Display Renderer: the display buffer itself is not modelled; what       *)
(* updateDisplayValue does to the program state is to drop a DATE display  *)
(* that the active MK5017 model does not support.                          *)

updateDisplayValue(s) ==
    IF /\ s.currentDisplayMode = "MODE_DATE"
       /\ ~(s.info.emulation = WIFI \/ s.info.model = MODEL_GC_1092D)
    THEN [s EXCEPT !.currentDisplayMode = "MODE_TIME"]
    ELSE s

----------------------------------------------------------------------------
(* Display Mode Sequencer *)

\* configuration: both blankings enabled, Saturday and Sunday blanked
timeBlankingEnabled == TRUE
weekendBlankingEnabled == TRUE
IsWeekend(tz) == weekendBlankingEnabled /\ tzWeekday(tz) \in {6, 0}
WithinDisplayWindow(tz) ==
    (~timeBlankingEnabled)
        \/ (tzHHMMSS(tz) >= ontime /\ tzHHMMSS(tz) < offtime)

\* the plausible slip: the date is shown in the last second of the ten only
SeqAutoDateLastSecond(s) ==
    LET s1 == IF s.autoDate \/ s.touchoverride
              THEN IF tzSecond(s.tz) % 10 = 9
                   THEN [s EXCEPT !.currentDisplayMode = "MODE_DATE"]
                   ELSE IF s.currentDisplayMode # "MODE_TIME"
                           /\ ~s.touchoverride
                        THEN [s EXCEPT !.currentDisplayMode = "MODE_TIME"]
                        ELSE s
              ELSE s
    IN  IF s1.datecounter > 1 /\ (~s1.autoDate \/ s1.touchoverride)
        THEN [s1 EXCEPT !.datecounter = @ - 1]
        ELSE IF s1.currentDisplayMode = "MODE_DATE"
                /\ (~s1.autoDate \/ s1.touchoverride)
             THEN [s1 EXCEPT !.datecounter = 0, !.touchoverride = FALSE,
                             !.currentDisplayMode = "MODE_TIME"]
             ELSE s1

\* MK5017, GC-1092D, editor idle: auto date and the touch countdown
SeqAutoDate(s) ==
    LET s1 == IF s.autoDate \/ s.touchoverride
              THEN IF tzSecond(s.tz) % 10 \in {8, 9}
                   THEN [s EXCEPT !.currentDisplayMode = "MODE_DATE"]
                   ELSE IF s.currentDisplayMode # "MODE_TIME"
                           /\ ~s.touchoverride
                        THEN [s EXCEPT !.currentDisplayMode = "MODE_TIME"]
                        ELSE s
              ELSE s
    IN  IF s1.datecounter > 1 /\ (~s1.autoDate \/ s1.touchoverride)
        THEN [s1 EXCEPT !.datecounter = @ - 1]
        ELSE IF s1.currentDisplayMode = "MODE_DATE"
                /\ (~s1.autoDate \/ s1.touchoverride)
             THEN [s1 EXCEPT !.datecounter = 0, !.touchoverride = FALSE,
                             !.currentDisplayMode = "MODE_TIME"]
             ELSE s1

\* WIFI: the DATE countdown
SeqDateCountdown(s) ==
    IF s.datecounter > 0 /\ s.currentDisplayMode = "MODE_DATE"
    THEN [s EXCEPT !.datecounter = @ - 1]
    ELSE IF s.currentDisplayMode = "MODE_DATE" /\ s.datecounter = 0
         THEN [s EXCEPT !.touchoverride = FALSE,
                        !.currentDisplayMode = "MODE_TIME"]
         ELSE s

\* the plausible slip: blanking does not spare a DATE display
SeqBlankingOverDate(s, isWeekend, within) ==
    IF ~s.overrideForBlank
    THEN IF isWeekend \/ ~within
         THEN [s EXCEPT !.currentDisplayMode = "MODE_MESSAGE",
                        !.messageindex = MSG_BLANK]
         ELSE [s EXCEPT !.currentDisplayMode = "MODE_TIME"]
    ELSE s

\* WIFI: weekend and time-of-day blanking
SeqBlanking(s, isWeekend, within) ==
    IF s.currentDisplayMode # "MODE_DATE" /\ ~s.overrideForBlank
    THEN IF isWeekend \/ ~within
         THEN [s EXCEPT !.currentDisplayMode = "MODE_MESSAGE",
                        !.messageindex = MSG_BLANK]
         ELSE [s EXCEPT !.currentDisplayMode = "MODE_TIME"]
    ELSE s

\* the plausible slip: the override is cleared during a DATE display too
SeqOverrideOverDate(s, isWeekend, within) ==
    IF s.manualOverride
    THEN IF (~s.overrideForBlank /\ within)
               \/ (s.overrideForBlank /\ ~within)
         THEN updateDisplayValue(SeqBlanking(
                  [s EXCEPT !.manualOverride = FALSE],
                  isWeekend, within))
         ELSE IF s.currentDisplayMode = "MODE_DATE"
              THEN updateDisplayValue(SeqBlanking(s, isWeekend, within))
              ELSE updateDisplayValue(
                       IF s.overrideForBlank
                       THEN [s EXCEPT !.currentDisplayMode = "MODE_MESSAGE",
                                      !.messageindex = MSG_BLANK]
                       ELSE [s EXCEPT !.currentDisplayMode = "MODE_TIME"])
    ELSE updateDisplayValue(SeqBlanking(s, isWeekend, within))

\* WIFI: manual override, then the normal blanking
SeqOverride(s, isWeekend, within) ==
    IF s.manualOverride
    THEN IF s.currentDisplayMode = "MODE_DATE"
         THEN updateDisplayValue(SeqBlanking(s, isWeekend, within))
         ELSE IF (~s.overrideForBlank /\ within)
                    \/ (s.overrideForBlank /\ ~within)
              THEN updateDisplayValue(SeqBlanking(
                       [s EXCEPT !.manualOverride = FALSE],
                       isWeekend, within))
              ELSE updateDisplayValue(
                       IF s.overrideForBlank
                       THEN [s EXCEPT !.currentDisplayMode = "MODE_MESSAGE",
                                      !.messageindex = MSG_BLANK]
                       ELSE [s EXCEPT !.currentDisplayMode = "MODE_TIME"])
    ELSE updateDisplayValue(SeqBlanking(s, isWeekend, within))

updateDisplayStateIfNeeded(s) ==
    IF s.info.emulation = MK5017
    THEN IF s.info.model = MODEL_BOGUS
         THEN s
         ELSE IF s.info.model = MODEL_GC_1092D /\ ~s.inEditMode
              THEN SeqAutoDate(s)
              ELSE s
    ELSE SeqOverride(SeqDateCountdown(s), IsWeekend(s.tz),
                     WithinDisplayWindow(s.tz))

----------------------------------------------------------------------------
(* Battery-backed clock reconciliation *)

keepRTCinsync(s) ==
    LET rtcnow == rtcNow(s.rtc)
    IN  [s EXCEPT !.rtc.a2 = PlusHours(rtcnow, BatteryBackup),
                  !.tz = tzSetTime(rtcnow.h, rtcnow.mi, rtcnow.s,
                                   rtcnow.d, rtcnow.mo)]

----------------------------------------------------------------------------
(* Display Timing Pulse Generator.  in.tick is secondChanged(), in.now the *)
(* value of micros().                                                      *)

SecondsOfDay(h, mi, sec) == h * 3600 + mi * 60 + sec

MinuteHandlers(s) ==
    IF tzSecond(s.tz) % 60 = 0
    THEN LET minuteNow == tzMinute(s.tz)
         IN  IF minuteNow # s.lastMinuteSeen /\ s.lastMinuteSeen # 0
             THEN LET s1 == [s EXCEPT !.lastMinuteSeen = minuteNow]
                  IN  IF minuteNow % 5 = 0 /\ s.info.emulation = MK5017
                      THEN keepRTCinsync(s1)
                      ELSE s1
             ELSE [s EXCEPT !.lastMinuteSeen = @ + 1]
    ELSE s

\* the bookkeeping of a new second, after the display sequencer's turn
SecondEdgeMark(s1, now) ==
    MinuteHandlers(
        [s1 EXCEPT
           !.secondEdgeMicros = now,
           !.topOfSecond = TRUE,
           !.halfSecondFired = FALSE,
           !.timeSeconds = SecondsOfDay(tzHour(s1.tz), tzMinute(s1.tz),
                                        tzSecond(s1.tz)),
           !.alarmSeconds = SecondsOfDay(s1.alarmDT.h, s1.alarmDT.mi,
                                         s1.alarmDT.s)])

SecondEdge(s, now) == SecondEdgeMark(updateDisplayStateIfNeeded(s), now)

\* the half-second pulse, once per second
HalfSecondEdge(s1, now) ==
    IF ~s1.halfSecondFired
       /\ U32Ge(Sub32(now, s1.secondEdgeMicros), HALF_OFFSET_US)
    THEN [s1 EXCEPT !.halfSecond = TRUE, !.halfSecondFired = TRUE]
    ELSE s1

handleTimedDispatches(s, in) ==
    HalfSecondEdge(IF in.tick THEN SecondEdge(s, in.now) ELSE s, in.now)

----------------------------------------------------------------------------
(* Touch/Gesture Interpreter *)

\* the plausible slip: the callback flips on every call
gotTouchEventUnguarded(s) ==
    [s EXCEPT !.touchActive = ~s.touchActive,
              !.testingLower = ~s.testingLower]

\* the capacitive sensor's callback
gotTouchEvent(s) ==
    IF s.lastTouchActive # s.testingLower
    THEN [s EXCEPT !.touchActive = ~s.touchActive,
                   !.testingLower = ~s.testingLower]
    ELSE s

\* WIFI only: the two-switch heuristic; ms is millis().  Returns the
\* statics it leaves and computedTouchActive.
TouchHeuristic(s, ms) ==
    LET anyChange == s.sw[2].changed \/ s.sw[5].changed \/ s.sw[6].changed
        s6last    == IF anyChange /\ s.sw[6].changed THEN TRUE
                     ELSE s.sw_6_changed_last
        lct       == IF anyChange THEN ms ELSE s.lastChangeTime
        D_555     == s.sw[2].state /\ s.sw[5].state
        Others    == (s6last /\ s.sw[6].state) \/ s.sw[5].state
        computed  == IF U32Ge(Sub32(ms, lct), GRACE_MS)
                     THEN IF D_555 THEN TRUE
                          ELSE IF U32Ge(Sub32(ms, s.lastD555EndTime),
                                        RELEASE_COOLDOWN_MS)
                               THEN Others
                               ELSE FALSE
                     ELSE FALSE
        ended     == ~D_555 /\ s.wasD555
    IN  [st |-> [s EXCEPT !.lastChangeTime = lct,
                          !.sw_6_changed_last = IF ended THEN FALSE
                                                ELSE s6last,
                          !.lastD555EndTime = IF ended THEN ms ELSE @,
                          !.wasD555 = D_555,
                          !.prevComputed = computed],
         computed |-> computed]

\* the display cycle driven by an active edge of the fused signal
TouchCycle(s) ==
    IF s.currentDisplayMode = "MODE_TIME"
    THEN [s EXCEPT !.currentDisplayMode = "MODE_DATE",
                   !.touchoverride = TRUE,
                   !.datecounter = IF s.info.emulation = WIFI
                                   THEN showdatesec ELSE HW_DATE_SECONDS]
    ELSE IF s.info.emulation = WIFI /\ s.currentDisplayMode = "MODE_DATE"
         THEN [s EXCEPT !.manualOverride = TRUE, !.overrideForBlank = TRUE,
                        !.currentDisplayMode = "MODE_MESSAGE",
                        !.messageindex = MSG_BLANK]
         ELSE IF s.info.emulation = WIFI
                    /\ s.currentDisplayMode = "MODE_MESSAGE"
              THEN [s EXCEPT !.manualOverride = TRUE,
                             !.overrideForBlank = FALSE,
                             !.currentDisplayMode = "MODE_TIME"]
              ELSE s

\* the plausible slip: the cycle advances on the level of the signal
TouchEdgeLevel(s1, effectiveTouchActive) ==
    IF effectiveTouchActive
    THEN TouchCycle([s1 EXCEPT !.lastTouchActive = TRUE])
    ELSE [s1 EXCEPT !.lastTouchActive = FALSE]

\* edge detection on the effective touch signal
TouchEdge(s1, effectiveTouchActive) ==
    IF s1.lastTouchActive # effectiveTouchActive
    THEN IF effectiveTouchActive
         THEN TouchCycle([s1 EXCEPT !.lastTouchActive = TRUE])
         ELSE [s1 EXCEPT !.lastTouchActive = FALSE]
    ELSE s1

TouchFused(h) == TouchEdge(h.st, h.st.touchActive \/ h.computed)

handleTouchEvent(s, ms) ==
    IF s.info.emulation = WIFI
    THEN TouchFused(TouchHeuristic(s, ms))
    ELSE TouchEdge(s, s.touchActive)

----------------------------------------------------------------------------
(* Persisted state *)

\* the plausible slip: one test guards both fields
loadEEPROMJoint(eeprom) ==
    IF eeprom.e < EmulationCount /\ eeprom.md < ModelCount
    THEN [emulation |-> eeprom.e, model |-> eeprom.md]
    ELSE [emulation |-> defaultEmulation, model |-> defaultModel]

loadEEPROM(eeprom) ==
    [emulation |-> IF eeprom.e < EmulationCount THEN eeprom.e
                   ELSE defaultEmulation,
     model     |-> IF eeprom.md < ModelCount THEN eeprom.md
                   ELSE defaultModel]

saveEEPROM(s, emu, model) == [s EXCEPT !.eeprom = [e |-> emu, md |-> model]]

----------------------------------------------------------------------------
(* Alarm Engine *)

alarmToneStart(s) == [s EXCEPT !.toneActive = TRUE]
alarmToneStop(s)  == [s EXCEPT !.toneActive = FALSE]

\* the plausible slip: a snooze outlives the alarm switch
updateAlarmSnoozeKeeps(s) ==
    CASE s.alarmState = "ALARM_IDLE" ->
            IF s.alarmEnabled THEN [s EXCEPT !.alarmState = "ALARM_ARMED"]
            ELSE s
      [] s.alarmState = "ALARM_ARMED" ->
            IF ~s.alarmEnabled THEN [s EXCEPT !.alarmState = "ALARM_IDLE"]
            ELSE IF s.timeSeconds = s.alarmSeconds
                 THEN [s EXCEPT !.alarmState = "ALARM_SOUNDING"]
                 ELSE s
      [] s.alarmState = "ALARM_SOUNDING" ->
            IF ~s.alarmEnabled
            THEN [alarmToneStop(s) EXCEPT !.alarmState = "ALARM_IDLE"]
            ELSE IF U32Ge(Sub32(s.timeSeconds, s.alarmSeconds),
                          ALARM_MAX_MIN * 60)
                 THEN [alarmToneStop(s) EXCEPT !.alarmState = "ALARM_IDLE"]
                 ELSE s
      [] OTHER ->  \* ALARM_SNOOZE
            IF U32Ge(s.timeSeconds, s.snoozeTargetS)
            THEN [s EXCEPT !.alarmState = "ALARM_SOUNDING"]
            ELSE s

updateAlarm(s) ==
    CASE s.alarmState = "ALARM_IDLE" ->
            IF s.alarmEnabled THEN [s EXCEPT !.alarmState = "ALARM_ARMED"]
            ELSE s
      [] s.alarmState = "ALARM_ARMED" ->
            IF ~s.alarmEnabled THEN [s EXCEPT !.alarmState = "ALARM_IDLE"]
            ELSE IF s.timeSeconds = s.alarmSeconds
                 THEN [s EXCEPT !.alarmState = "ALARM_SOUNDING"]
                 ELSE s
      [] s.alarmState = "ALARM_SOUNDING" ->
            IF ~s.alarmEnabled
            THEN [alarmToneStop(s) EXCEPT !.alarmState = "ALARM_IDLE"]
            ELSE IF U32Ge(Sub32(s.timeSeconds, s.alarmSeconds),
                          ALARM_MAX_MIN * 60)
                 THEN [alarmToneStop(s) EXCEPT !.alarmState = "ALARM_IDLE"]
                 ELSE s
      [] OTHER ->  \* ALARM_SNOOZE
            IF ~s.alarmEnabled THEN [s EXCEPT !.alarmState = "ALARM_IDLE"]
            ELSE IF U32Ge(s.timeSeconds, s.snoozeTargetS)
                 THEN [s EXCEPT !.alarmState = "ALARM_SOUNDING"]
                 ELSE s

\* the plausible slip: snooze accepted in every state
requestSnoozeAlways(s) ==
    [alarmToneStop(s) EXCEPT
        !.snoozeTargetS = Add32(s.timeSeconds, SNOOZE_MIN * 60),
        !.alarmState = "ALARM_SNOOZE"]

requestSnooze(s) ==
    IF s.alarmState = "ALARM_SOUNDING"
    THEN [alarmToneStop(s) EXCEPT
            !.snoozeTargetS = Add32(s.timeSeconds, SNOOZE_MIN * 60),
            !.alarmState = "ALARM_SNOOZE"]
    ELSE s

\* the plausible slip: the burst is not started at the second edge
alarmToneDriverNoStart(s) ==
    IF s.alarmState # "ALARM_SOUNDING" THEN alarmToneStop(s)
    ELSE IF s.halfSecond THEN alarmToneStop(s) ELSE s

\* the plausible slip: the burst is not cut at the half second
alarmToneDriverNoStop(s) ==
    IF s.alarmState # "ALARM_SOUNDING"
    THEN alarmToneStop(s)
    ELSE IF s.topOfSecond THEN alarmToneStart(s) ELSE s

alarmToneDriver(s) ==
    IF s.alarmState # "ALARM_SOUNDING"
    THEN alarmToneStop(s)
    ELSE LET s1 == IF s.topOfSecond THEN alarmToneStart(s) ELSE s
         IN  IF s1.halfSecond THEN alarmToneStop(s1) ELSE s1

----------------------------------------------------------------------------
(* Set-Mode Editor *)

\* sprintf("%02d", n) as its digits
Digits2(n) == IF n < 100 THEN <<n \div 10, n % 10>>
              ELSE <<n \div 100, (n \div 10) % 10, n % 10>>
\* String::substring(from, from + 2).toInt() on a string of digits
ToInt2(str, from) ==
    IF Len(str) >= from + 1 THEN 10 * str[from] + str[from + 1]
    ELSE IF Len(str) >= from THEN str[from] ELSE 0

\* updateStrings(): the display string of the edit buffer
updateStrings(s) ==
    LET hrDisp == IF s.is24HourMode THEN s.hr24
                  ELSE IF s.hr24 % 12 = 0 THEN 12 ELSE s.hr24 % 12
    IN  updateDisplayValue(
            [s EXCEPT !.displaystring =
                 Digits2(hrDisp) \o Digits2(s.minutes) \o Digits2(s.seconds)])

incrementHours(s) == updateStrings([s EXCEPT !.hr24 = (s.hr24 + 1) % 24])

\* the plausible slip: the ones digit carries into the tens
incrementMinuteOnesCarry(s) ==
    updateStrings([s EXCEPT !.minutes = (s.minutes + 1) % 60])

incrementMinuteOnes(s) ==
    LET tens == s.minutes \div 10
        ones == ((s.minutes % 10) + 1) % 10
    IN  updateStrings([s EXCEPT !.minutes = (tens * 10 + ones) % 256])

incrementMinuteTens(s) ==
    updateStrings([s EXCEPT !.minutes = (s.minutes + 10) % 60])

\* incrementDate(m): m = TRUE advances the day, FALSE the month
incrementDate(s, md) ==
    LET month == ToInt2(s.displaystring, 1)
        day   == ToInt2(s.displaystring, 3)
        day1  == IF md THEN (IF day + 1 > 31 THEN 1 ELSE day + 1) ELSE day
        mon1  == IF md THEN (IF day + 1 > 31 THEN month + 1 ELSE month)
                 ELSE month + 1
        mon2  == IF mon1 > 12 THEN 1 ELSE mon1
    IN  [s EXCEPT !.dateChanged = TRUE,
                  !.displaystring = Digits2(mon2) \o Digits2(day1)]

enterSetMode(s, target) ==
    LET s1 ==
        CASE target = "EDIT_TIME" ->
                [updateStrings(
                    IF s.hr24 = HR_UNSET
                    THEN [s EXCEPT !.hr24 = 0, !.minutes = 0, !.seconds = 0]
                    ELSE [s EXCEPT !.hr24 = tzHour(s.tz),
                                   !.minutes = tzMinute(s.tz),
                                   !.seconds = IF s.sw[SW_HOLD].state
                                               THEN tzSecond(s.tz) ELSE 0])
                 EXCEPT !.currentDisplayMode = "MODE_SET"]
          [] target = "EDIT_ALARM" ->
                [updateStrings(
                    IF s.alarmSet
                    THEN [s EXCEPT !.alarmDT = s.rtc.a1,
                                   !.hr24 = s.rtc.a1.h,
                                   !.minutes = s.rtc.a1.mi,
                                   !.seconds = 0]
                    ELSE [s EXCEPT !.hr24 = 0, !.minutes = 0, !.seconds = 0])
                 EXCEPT !.currentDisplayMode = "MODE_SET"]
          [] target = "EDIT_DATE" ->
                [s EXCEPT !.dateChanged = FALSE,
                          !.displaystring =
                              IF s.dateSet
                              THEN Digits2(tzMonth(s.tz))
                                       \o Digits2(tzDay(s.tz))
                              ELSE <<0, 1, 0, 1>>,
                          !.currentDisplayMode = "MODE_SET"]
          [] OTHER ->  \* EDIT_MODEL
                [s EXCEPT !.messageindex = 0,
                          !.currentDisplayMode = "MODE_MESSAGE",
                          !.overrideForBlank = TRUE]
    IN  updateDisplayValue([s1 EXCEPT !.activeTarget = target,
                                      !.inEditMode = TRUE])

\* the plausible slip: the time source is not reseeded from the edit
CommitTimeStale(s) ==
    keepRTCinsync(s)

\* commit of a TIME edit: time source, battery-backed clock, validity window
CommitTime(s) ==
    LET mm == tzMonth(s.tz)
        dd == tzDay(s.tz)
    IN  keepRTCinsync(
            [s EXCEPT !.tz  = tzSetTime(s.hr24, s.minutes, s.seconds, dd, mm),
                      !.rtc = rtcAdjust(s.rtc, DateTime(mm, dd, s.hr24,
                                                        s.minutes, s.seconds))])

CommitAlarm(s) ==
    LET a == DateTime(1, 1, s.hr24, s.minutes, 0)
    IN  [s EXCEPT !.alarmDT = a, !.alarmSet = TRUE, !.rtc.a1 = a]

CommitDate(s) ==
    IF s.dateChanged
    THEN LET mm == ToInt2(s.displaystring, 1)
             dd == ToInt2(s.displaystring, 3)
             h0 == tzHour(s.tz)
             h  == IF h0 > 12 THEN h0 - 12 ELSE h0
             mi == tzMinute(s.tz)
             sc == tzSecond(s.tz)
         IN  [s EXCEPT !.dateSet = TRUE, !.dateChanged = FALSE,
                       !.tz = tzSetTime(h, mi, sc, dd, mm),
                       !.rtc = rtcAdjust(s.rtc, DateTime(mm, dd, h, mi, sc))]
    ELSE s

CommitModel(s) ==
    LET s1 == saveEEPROM(s, s.info.emulation, s.messageindex)
    IN  [s1 EXCEPT !.currentDisplayMode = "MODE_MESSAGE",
                   !.messageindex = MSG_DASHES,
                   !.rtc = clearRTC(s1.rtc),
                   !.restart = TRUE]

\* the plausible slip: the commit leaves without running the sequencer
commitSetModeNoSeq(s) ==
    IF ~s.inEditMode THEN s
    ELSE IF s.activeTarget = "EDIT_MODEL" THEN CommitModel(s)
    ELSE LET s1 == CASE s.activeTarget = "EDIT_TIME"  -> CommitTime(s)
                     [] s.activeTarget = "EDIT_ALARM" -> CommitAlarm(s)
                     [] OTHER                         -> CommitDate(s)
         IN  updateDisplayValue(
                 [s1 EXCEPT !.inEditMode = FALSE,
                            !.lastMinuteSeen = -1,
                            !.currentDisplayMode = "MODE_TIME"])

commitSetMode(s) ==
    IF ~s.inEditMode THEN s
    ELSE IF s.activeTarget = "EDIT_MODEL" THEN CommitModel(s)
    ELSE LET s1 == CASE s.activeTarget = "EDIT_TIME"  -> CommitTime(s)
                     [] s.activeTarget = "EDIT_ALARM" -> CommitAlarm(s)
                     [] OTHER                         -> CommitDate(s)
         IN  updateDisplayValue(updateDisplayStateIfNeeded(
                 [s1 EXCEPT !.inEditMode = FALSE,
                            !.lastMinuteSeen = -1,
                            !.currentDisplayMode = "MODE_TIME"]))

\* the increments applied on a pulse while hold is not engaged
EditTimeStep(s1) ==
    IF s1.sw[3].state /\ s1.sw[4].state
    THEN incrementMinuteTens(s1)
    ELSE IF s1.sw[3].state THEN incrementHours(s1)
    ELSE IF s1.sw[4].state THEN incrementMinuteOnes(s1)
    ELSE s1

EditDateDay(s1) == IF s1.sw[4].state THEN incrementDate(s1, TRUE) ELSE s1

EditIncrement(s) ==
    CASE s.activeTarget \in {"EDIT_TIME", "EDIT_ALARM"} ->
            EditTimeStep(IF s.sw[7].changed
                         THEN updateStrings(
                                  [s EXCEPT !.is24HourMode = s.sw[7].state])
                         ELSE s)
      [] s.activeTarget = "EDIT_DATE" ->
            EditDateDay(IF s.sw[3].state THEN incrementDate(s, FALSE)
                        ELSE s)
      [] OTHER ->  \* EDIT_MODEL
            IF s.sw[3].state
            THEN updateDisplayValue(
                     [s EXCEPT !.messageindex = (@ + 1) % MODEL_MSG_COUNT])
            ELSE s

ExitRequested(s) ==
    CASE s.activeTarget = "EDIT_TIME" ->
            IF s.sw[SW_HOLD].state
            THEN s.sw[SW_HOLD].changed /\ ~s.sw[SW_HOLD].state
            ELSE ~s.sw[1].state
      [] s.activeTarget \in {"EDIT_DATE", "EDIT_ALARM"} -> ~s.sw[2].state
      [] OTHER -> s.sw[1].changed /\ s.sw[1].state

EditEnter(s, target) ==
    IF ~s.inEditMode THEN enterSetMode(s, target) ELSE s

EditTick(s1) ==
    IF s1.inEditMode /\ (s1.topOfSecond \/ s1.halfSecond)
       /\ ~s1.sw[SW_HOLD].state
    THEN updateDisplayValue(EditIncrement(s1))
    ELSE s1

EditExit(s2) ==
    IF s2.inEditMode /\ ExitRequested(s2) THEN commitSetMode(s2) ELSE s2

handleSetMode(s, target) ==
    IF s.restart THEN s ELSE EditExit(EditTick(EditEnter(s, target)))

----------------------------------------------------------------------------
(* Switch dispatch; ms is millis() *)

ArduinoOTA_begin(s, ms) ==
    [s EXCEPT !.wifiMode = "WIFI_AP",
              !.otaModeActive = TRUE, !.otaStartTime = ms]

\* the plausible slip: the flag is cleared inside the WIFI branch
checkOtaTimeoutWifiOnly(s, ms) ==
    IF s.restart THEN s ELSE
    IF s.otaModeActive /\ U32Gt(Sub32(ms, s.otaStartTime), otaTimeout)
    THEN IF s.info.emulation = WIFI
         THEN [s EXCEPT !.wifiMode = "WIFI_STA", !.otaModeActive = FALSE]
         ELSE [s EXCEPT !.wifiMode = "WIFI_OFF"]
    ELSE s

\* softAPdisconnect(true) switches the access point off
checkOtaTimeout(s, ms) ==
    IF s.restart THEN s ELSE
    IF s.otaModeActive /\ U32Gt(Sub32(ms, s.otaStartTime), otaTimeout)
    THEN [s EXCEPT !.wifiMode = IF s.info.emulation = WIFI
                                THEN "WIFI_STA" ELSE "WIFI_OFF",
                   !.otaModeActive = FALSE]
    ELSE s

ResetOn3xTimeSet(s, ms) ==
    IF s.timeSetCount = 0
    THEN [s EXCEPT !.startTime = ms, !.timeSetCount = 1]
    ELSE IF ~U32Gt(Sub32(ms, s.startTime), RESET_WINDOW_MS)
         THEN [s EXCEPT !.timeSetCount = @ + 1,
                        !.restart = (s.timeSetCount + 1 >= 3)]
         ELSE [s EXCEPT !.startTime = ms, !.timeSetCount = 1]

\* (MODEL_GC_1092D || MODEL_BOGUS) is the bool true, compared as the int 1
SnoozeGuard(s) == s.info.model # 1

DispatchAlarmEnable(s) ==
    IF s.info.model # MODEL_GC_1092D
    THEN LET s1 == [s EXCEPT !.alarmEnabled = s.sw[6].state]
         IN  IF ~s.sw[6].state THEN alarmToneStop(s1) ELSE s1
    ELSE LET s1 == [s EXCEPT !.autoDate = ~s.sw[6].state]
         IN  IF ~s.sw[2].state
             THEN [s1 EXCEPT !.currentDisplayMode = "MODE_TIME"]
             ELSE s1

Dispatch1224(s) ==
    LET s1 == [s EXCEPT !.is24HourMode = s.sw[7].state]
        s2 == IF s.info.model # MODEL_GC_1092D THEN updateStrings(s1) ELSE s1
    IN  updateDisplayValue(s2)

\* the MK5017 part of DispatchSwitches
DispatchTimeSet(s) ==
    IF s.sw[1].changed /\ s.sw[1].state
    THEN handleSetMode(s, "EDIT_TIME") ELSE s

DispatchAlarmSet(s) ==
    IF s.restart THEN s
    ELSE IF s.sw[2].changed /\ s.sw[2].state
    THEN IF s.info.model # MODEL_GC_1092D
         THEN handleSetMode(s, "EDIT_ALARM")
         ELSE handleSetMode(s, "EDIT_DATE")
    ELSE s

DispatchSnooze(s) ==
    IF s.restart THEN s
    ELSE IF s.sw[5].changed /\ SnoozeGuard(s) THEN requestSnooze(s) ELSE s

DispatchAlarmEnableSwitch(s) ==
    IF s.restart THEN s
    ELSE IF s.sw[6].changed THEN DispatchAlarmEnable(s) ELSE s

Dispatch1224Switch(s) ==
    IF s.restart THEN s
    ELSE IF s.sw[7].changed THEN Dispatch1224(s) ELSE s

DispatchHold(s) ==
    IF s.restart THEN s
    ELSE IF s.sw[SW_HOLD].changed /\ s.sw[SW_HOLD].state
    THEN handleSetMode(s, "EDIT_TIME") ELSE s

\* the MK5017 part of DispatchSwitches
DispatchMK5017(s) ==
    DispatchHold(Dispatch1224Switch(DispatchAlarmEnableSwitch(
        DispatchSnooze(DispatchAlarmSet(DispatchTimeSet(s))))))

DispatchOTA(s, ms) ==
    IF (s.sw[3].changed \/ s.sw[4].changed)
       /\ s.sw[3].state /\ s.sw[4].state
       /\ ~s.inEditMode /\ ~s.otaModeActive
    THEN ArduinoOTA_begin(s, ms) ELSE s

DispatchReset(s, ms) ==
    IF s.sw[1].changed /\ s.sw[1].state
    THEN ResetOn3xTimeSet(s, ms) ELSE s

DispatchEmulation(s) ==
    IF s.restart THEN s
    ELSE IF s.info.emulation = MK5017 THEN DispatchMK5017(s) ELSE s

\* keep handling edit mode updates and exit
DispatchEditing(s) ==
    IF s.restart THEN s
    ELSE IF s.inEditMode THEN handleSetMode(s, s.activeTarget) ELSE s

DispatchSwitches(s, ms) ==
    IF s.restart THEN s
    ELSE DispatchEditing(DispatchEmulation(
             DispatchReset(DispatchOTA(s, ms), ms)))

----------------------------------------------------------------------------
(* NTP watchdog (WIFI); ntp is what the time service reports *)

NTP_CHECK_MS == 500000

monitorAndRecoverNtp(s, ms, ntp) ==
    IF s.restart THEN s ELSE
    IF ~U32Ge(Sub32(ms, s.lastCheck), NTP_CHECK_MS) THEN s
    ELSE LET s1 == [s EXCEPT !.lastCheck = ms]
         IN  CASE ntp = "fresh"  -> s1
               [] ntp = "sync5"  ->
                      [s1 EXCEPT !.currentDisplayMode = "MODE_MESSAGE",
                                 !.messageindex = MSG_DASHES]
               [] ntp = "sync10" ->
                      [s1 EXCEPT !.wifiMode = "WIFI_STA",
                                 !.currentDisplayMode = "MODE_TIME",
                                 !.messageindex = MSG_DASHES]
               [] OTHER ->
                      [s1 EXCEPT !.wifiMode = "WIFI_STA",
                                 !.currentDisplayMode = "MODE_MESSAGE",
                                 !.messageindex = MSG_DASHES,
                                 !.restart = TRUE]

----------------------------------------------------------------------------
(* loop().  in: [cd, KA, KB, hold, now, tick, ntp]                         *)

\* millis() from micros(), during the first 2^32 microseconds after boot
Millis(us) ==
    IF us >= 0 THEN us \div 1000
    ELSE LET v == us + 2147483647 + 1
         IN  (v \div 1000) + 2147483 + (((v % 1000) + 648) \div 1000)

\* loop() up to and including DispatchSwitches
LoopDispatched(s, in) ==
    DispatchSwitches(
        handleTouchEvent(
            updateDisplayValue(
                handleTimedDispatches(CheckSwitches(s, in), in)),
            Millis(in.now)),
        Millis(in.now))

\* the alarm engine's turn (MK5017, every model but the GC-1092D)
LoopAlarm(s) ==
    IF s.info.model # MODEL_GC_1092D
    THEN alarmToneDriver(updateAlarm(s))
    ELSE s

\* the model check at the end of the MK5017 branch
LoopModelCheck(s) ==
    IF s.info.model = MODEL_BOGUS /\ ~s.inEditMode
    THEN handleSetMode(s, "EDIT_MODEL")
    ELSE s

\* the emulation's branch
LoopEmulation(s5, in) ==
    IF s5.restart THEN s5
    ELSE IF s5.info.emulation = MK5017
         THEN LoopModelCheck(LoopAlarm(s5))
         ELSE monitorAndRecoverNtp(s5, Millis(in.now), in.ntp)

\* the pulses are cleared at the end of the iteration
LoopEnd(s7) ==
    IF s7.restart THEN s7
    ELSE [s7 EXCEPT !.topOfSecond = FALSE, !.halfSecond = FALSE]

loop(s, in) ==
    LoopEnd(checkOtaTimeout(LoopEmulation(LoopDispatched(s, in), in),
                            Millis(in.now)))

----------------------------------------------------------------------------
(* setup(): setupConfigInit after its CheckSwitches calls, then            *)
(* setupEmulationInit.  in: [rtcOK, wifiOK, ntpTime]                       *)

\* the plausible slip: the emulation toggle stores and carries on
BootGesturesNoRestart(s) ==
    IF s.info.emulation = MK5017 /\ s.sw[4].state
    THEN [saveEEPROM(s, s.info.emulation, MODEL_BOGUS) EXCEPT
             !.Disable_swHOLD = TRUE, !.rtc = clearRTC(s.rtc),
             !.currentDisplayMode = "MODE_MESSAGE",
             !.messageindex = MSG_DASHES, !.restart = TRUE]
    ELSE IF s.sw[3].state
         THEN [saveEEPROM(s, IF s.info.emulation = MK5017 THEN WIFI
                             ELSE MK5017, s.info.model) EXCEPT
                  !.currentDisplayMode = "MODE_MESSAGE",
                  !.messageindex = MSG_DASHES]
         ELSE s

BootGestures(s) ==
    IF s.info.emulation = MK5017 /\ s.sw[4].state
    THEN [saveEEPROM(s, s.info.emulation, MODEL_BOGUS) EXCEPT
             !.Disable_swHOLD = TRUE, !.rtc = clearRTC(s.rtc),
             !.currentDisplayMode = "MODE_MESSAGE",
             !.messageindex = MSG_DASHES, !.restart = TRUE]
    ELSE IF s.sw[3].state
         THEN [saveEEPROM(s, IF s.info.emulation = MK5017 THEN WIFI
                             ELSE MK5017, s.info.model) EXCEPT
                  !.currentDisplayMode = "MODE_MESSAGE",
                  !.messageindex = MSG_DASHES, !.restart = TRUE]
         ELSE s

setupConfigInit(s) ==
    BootGestures([s EXCEPT !.info = loadEEPROM(s.eeprom)])

setupEmulationInit(s, in) ==
    IF s.restart THEN s ELSE
    IF s.info.emulation = MK5017
    THEN IF s.info.model = MODEL_BOGUS \/ ~in.rtcOK THEN s
         ELSE LET rtcnow == rtcNow(s.rtc)
                  nowS   == SecondsOfDay(rtcnow.h, rtcnow.mi, rtcnow.s)
                  alarmS == SecondsOfDay(s.rtc.a2.h, s.rtc.a2.mi, 0)
              IN  IF nowS <= alarmS
                  THEN LET tz1 == tzSetTime(rtcnow.h, rtcnow.mi, rtcnow.s,
                                            rtcnow.d, rtcnow.mo)
                       IN updateDisplayStateIfNeeded(
                           [s EXCEPT
                              !.tz = tz1,
                              !.hr24 = tzHour(tz1),
                              !.alarmDT = s.rtc.a1,
                              !.alarmEnabled = s.sw[6].state,
                              !.autoDate =
                                  IF s.info.model = MODEL_GC_1092D
                                  THEN ~s.sw[6].state ELSE @,
                              !.dateSet =
                                  IF s.info.model = MODEL_GC_1092D
                                  THEN TRUE ELSE @,
                              !.alarmSet = TRUE,
                              !.inEditMode = FALSE,
                              !.lastMinuteSeen = -1,
                              !.currentDisplayMode = "MODE_TIME"])
                  ELSE [s EXCEPT
                          !.rtc = rtcAdjust(s.rtc, DateTime(1, 1, 0, 0, 0)),
                          !.currentDisplayMode = "MODE_MESSAGE",
                          !.messageindex = MSG_EIGHTS]
    ELSE IF ~in.wifiOK
         THEN [s EXCEPT !.Disable_swHOLD = TRUE,
                        !.wifiMode = "WIFI_STA",
                        !.currentDisplayMode = "MODE_MESSAGE",
                        !.messageindex = 6, !.restart = TRUE]
         ELSE updateDisplayStateIfNeeded(
                  [s EXCEPT !.Disable_swHOLD = TRUE,
                            !.wifiMode = "WIFI_STA",
                            !.tz = in.ntpTime,
                            !.messageindex = 5,
                            !.currentDisplayMode = "MODE_TIME"])

----------------------------------------------------------------------------
(* SpecDebounce: any switch, any sequence of debounceSwitch calls *)

DebSwitches == {1, SW_HOLD}
DebSteps == {400, 600, 1001}
NoEv == [op |-> "none"]
NoHist == [i \in Switches |-> <<>>]

DebInit ==
    /\ m = BootGlobals([e |-> 0, md |-> 0], rtcFactory)
    /\ pc = "debounce"
    /\ micros \in {0, -700}
    /\ held = {}
    /\ mains = TRUE
    /\ iter = 0
    /\ toggles = 0
    /\ ev = NoEv
    /\ clock = 0
    /\ hist = NoHist

DebCall(i, raw, dt) ==
    /\ pc = "debounce"
    /\ iter < MaxCalls
    /\ micros' = Add32(micros, dt)
    /\ clock' = clock + dt
    /\ m' = [m EXCEPT !.sw[i] = debounceSwitch(@, raw, micros')]
    /\ hist' = [hist EXCEPT ![i] = Append(@,
                   [t |-> clock', raw |-> raw,
                    before |-> m.sw[i].state, after |-> m'.sw[i].state,
                    changed |-> m'.sw[i].changed])]
    /\ iter' = iter + 1
    /\ ev' = [op |-> "debounce", sw |-> i]
    /\ UNCHANGED <<pc, held, mains, toggles>>

DebNext == \E i \in DebSwitches, raw \in BOOLEAN, dt \in DebSteps :
               DebCall(i, raw, dt)

SpecDebounce == DebInit /\ [][DebNext]_vars

\* call k of history h sampled a level that the calls have seen unchanged
\* for more than the debounce interval
HeldLong(h, k) ==
    \E j \in 1..(k - 1) :
        /\ h[k].t - h[j].t > debounceDelay
        /\ \A l \in j..k : h[l].raw = h[k].raw

\* C1: the stable state changes only in a call whose raw sample has been
\* unchanged for more than debounceDelay (a level that flips back earlier
\* never changes it), and a level held longer than debounceDelay is the
\* stable state from the first such call on, having changed it at most once
\* (changed is reported exactly in the call where the state flips).
C1_DebounceInterval ==
    \A i \in Switches : \A k \in 1..Len(hist[i]) :
        LET h == hist[i] IN
        /\ (h[k].after # h[k].before) => HeldLong(h, k)
        /\ h[k].changed = (h[k].after # h[k].before)
        /\ HeldLong(h, k) => h[k].after = h[k].raw
        /\ \A j \in 1..(k - 1) :
              ((\A l \in j..k : h[l].raw = h[k].raw)
                  /\ h[j].changed) => ~h[k].changed

\* a level held for more than the interval has flipped the stable state,
\* after a shorter flicker had been ignored
C1_Witness ==
    \E i \in Switches : \E k \in 2..Len(hist[i]) :
        LET h == hist[i] IN
        /\ h[k].changed /\ HeldLong(h, k)
        /\ \E j \in 1..(k - 1) : h[j].raw # h[k].raw /\ ~h[j].changed
                                  /\ h[j].raw # h[j].before

----------------------------------------------------------------------------
(* SpecLoop: the device from power-up in MK5017 emulation: the eight       *)
(* CheckSwitches calls of setupConfigInit, the rest of setup(), then       *)
(* loop() iterations LoopMicros apart, while the user moves switches and   *)
(* the display task moves the scan index between the calls.                *)

\* the clocks after dt microseconds: [tz, rtc, tick]
Elapse(s, dt) ==
    LET tu == s.tz.us + dt
        ru == s.rtc.us + dt
    IN  [tz   |-> IF tu >= 1000000
                  THEN [tzAdvance(s.tz) EXCEPT !.us = tu - 1000000]
                  ELSE [s.tz EXCEPT !.us = tu],
         rtc  |-> IF ru >= 1000000
                  THEN [rtcAdvance(s.rtc) EXCEPT !.us = ru - 1000000]
                  ELSE [s.rtc EXCEPT !.us = ru],
         tick |-> tu >= 1000000]

\* what one call of CheckSwitches / loop() reads from the hardware
Inputs(s, cd, now, tick, ntp) ==
    [cd |-> cd, KA |-> RawKA(held, cd), KB |-> RawKB(held, cd),
     hold |-> IF mains THEN ~s.holdLastRead ELSE FALSE,
     now |-> now, tick |-> tick, ntp |-> ntp]

\* consumers' view of the changed flags: per switch, the loop() iterations
\* since its last stable transition in which changed was set (capped at 2)
Seen(before, afterCheck, old) ==
    [i \in Switches |->
        IF afterCheck.sw[i].state # before.sw[i].state THEN 1
        ELSE IF afterCheck.sw[i].changed
             THEN (IF old[i] < 2 THEN old[i] + 1 ELSE 2)
             ELSE old[i]]

NoSeen == [i \in Switches |-> 0]

LoopRtcs ==
    { [rtcFactory EXCEPT !.h = 6, !.mi = 59, !.s = 59,
                         !.a1 = DateTime(1, 1, 7, 0, 0),
                         !.a2 = DateTime(1, 1, 8, 30, 0)] }
LoopEeproms == { [e |-> MK5017, md |-> MODEL_BOGUS],
                 [e |-> MK5017, md |-> MODEL_GC_1005] }
LoopHeld == { {}, {1}, {6} }
UserSwitches == {1, 6}
\* scan indexes the calls may find: 1 reads sw_1 and sw_2, 3 reads sw_5 and
\* sw_6, 0 reads no switch
ScanDigits == {0, 1, 3}
SetupScans == { <<1, 2, 3, 4, 1, 2, 3, 4>>, <<0, 0, 0, 0, 0, 0, 0, 0>>,
                <<0, 0, 0, 0, 0, 0, 1, 1>>, <<0, 0, 0, 0, 0, 0, 3, 1>> }

LoopInit ==
    /\ \E ee \in LoopEeproms, r \in LoopRtcs : m = BootGlobals(ee, r)
    /\ pc = "setup"
    /\ micros = 0
    /\ held \in LoopHeld
    /\ mains \in BOOLEAN
    /\ iter = 0
    /\ toggles = 0
    /\ ev = [op |-> "boot", seen |-> NoSeen]
    /\ clock = 0
    /\ hist = NoHist

\* the user opens or closes a switch
Toggle(i) ==
    /\ toggles < MaxToggles
    /\ held' = IF i \in held THEN held \ {i} ELSE held \cup {i}
    /\ toggles' = toggles + 1
    /\ UNCHANGED <<m, pc, micros, mains, iter, ev, clock, hist>>

\* setupConfigInit's CheckSwitches calls from the k-th on: the first after
\* SETUP_DELAY_US, the others SETUP_STEP_US apart; scan[k] is the scan index
\* the k-th call reads
RECURSIVE SetupChecks(_, _, _, _)
SetupChecks(s, scan, k, now) ==
    IF k > SETUP_CHECKS THEN s
    ELSE LET s0 == [s EXCEPT !.curdigit = scan[k]]
         IN  SetupChecks(
                 CheckSwitches(s0, Inputs(s0, scan[k], now, FALSE, "fresh")),
                 scan, k + 1, Add32(now, SETUP_STEP_US))

SetupEnd == SETUP_DELAY_US + SETUP_CHECKS * SETUP_STEP_US

\* ESP.restart(): the globals are initialised again, the devices keep
\* their content
Reboot(s) == BootGlobals(s.eeprom, s.rtc)

\* setup()
\* setup()
Setup(scan, rtcOK) ==
    /\ pc = "setup"
    /\ \E s1 \in { setupEmulationInit(
                       setupConfigInit(
                           SetupChecks(m, scan, 1, Add32(micros, SETUP_DELAY_US))),
                       [rtcOK |-> rtcOK, wifiOK |-> TRUE,
                        ntpTime |-> tzBoot]) } :
           IF s1.restart
           THEN /\ m' = Reboot(s1)
                /\ pc' = "setup"
                /\ micros' = 0
                /\ ev' = [op |-> "restart", seen |-> NoSeen]
           ELSE /\ m' = s1
                /\ pc' = "loop"
                /\ micros' = Add32(micros, SetupEnd)
                /\ ev' = [op |-> "setup", seen |-> NoSeen]
    /\ iter' = iter + 1
    /\ UNCHANGED <<held, mains, toggles, clock, hist>>

\* one iteration of loop()
LoopStep(cd) ==
    /\ pc = "loop"
    /\ iter < MaxIter
    /\ \E el \in { Elapse(m, LoopMicros) } :
       \E s0 \in { [m EXCEPT !.tz = el.tz, !.rtc = el.rtc,
                             !.curdigit = cd] } :
       \E in \in { Inputs(s0, cd, Add32(micros, LoopMicros), el.tick, "fresh") } :
       \E s5 \in { LoopDispatched(s0, in) } :
       \E s1 \in { loop(s0, in) } :
           /\ IF s1.restart
              THEN /\ m' = Reboot(s1)
                   /\ pc' = "setup"
                   /\ micros' = 0
              ELSE /\ m' = s1
                   /\ pc' = pc
                   /\ micros' = in.now
           /\ ev' = [op |-> "loop", tick |-> el.tick,
                     restart |-> s1.restart,
                     first |-> (ev.op = "setup"),
                     seen |-> Seen(m, s5, ev.seen),
                     flip |-> {i \in Switches :
                                  s5.sw[i].state # m.sw[i].state},
                     engine |-> [alarmState |-> s5.alarmState,
                                 alarmEnabled |-> s5.alarmEnabled,
                                 due |-> (s5.timeSeconds = s5.alarmSeconds),
                                 topOfSecond |-> s5.topOfSecond]]
    /\ iter' = iter + 1
    /\ UNCHANGED <<held, mains, toggles, clock, hist>>

LoopNext ==
    \/ \E i \in UserSwitches : Toggle(i)
    \/ \E scan \in SetupScans, ok \in BOOLEAN : Setup(scan, ok)
    \/ \E cd \in ScanDigits : LoopStep(cd)

SpecLoop == LoopInit /\ [][LoopNext]_vars

\* C2: for each of the 8 switches, the consumers of a loop() iteration see
\* changed set in the iteration in which the stable state went over, and in
\* no other iteration: counted per switch since its last stable transition,
\* changed is seen set in at most one iteration.
C2_ChangedOneIteration ==
    (ev.op = "loop" /\ ~ev.restart) =>
        \A i \in Switches :
            /\ (i \in ev.flip) => m.sw[i].changed
            /\ ev.seen[i] <= 1

\* C5: in the loop() iteration whose second edge makes timeSeconds equal to
\* alarmSeconds, with the alarm enabled and the engine ARMED when
\* updateAlarm takes its turn, the iteration ends with the engine SOUNDING
\* and the tone on.
C5_ArmedToSounding ==
    (/\ ev.op = "loop" /\ ~ev.restart
     /\ ev.tick /\ ev.engine.topOfSecond
     /\ ev.engine.alarmState = "ALARM_ARMED"
     /\ ev.engine.alarmEnabled
     /\ ev.engine.due)
        => (m.alarmState = "ALARM_SOUNDING" /\ m.toneActive)

C5_Witness ==
    /\ ev.op = "loop" /\ ~ev.restart
    /\ ev.tick /\ ev.engine.topOfSecond
    /\ ev.engine.alarmState = "ALARM_ARMED"
    /\ ev.engine.alarmEnabled
    /\ ev.engine.due
    /\ m.alarmState = "ALARM_SOUNDING" /\ m.toneActive
    /\ m.timeSeconds = SecondsOfDay(7, 0, 0)

\* C10: in MK5017 emulation with the model unset (MODEL_BOGUS), every
\* loop() iteration ends with the editor active on EDIT_MODEL; no switch
\* event makes it active on EDIT_TIME, EDIT_ALARM or EDIT_DATE.
C10_ModelEditorForced ==
    (/\ ev.op = "loop" /\ ~ev.restart
     /\ m.info.emulation = MK5017
     /\ m.info.model = MODEL_BOGUS)
        => (m.inEditMode /\ m.activeTarget = "EDIT_MODEL")

----------------------------------------------------------------------------
(* SpecEEPROM: every content of the two stored bytes; the configuration is *)
(* loaded at boot and may be saved again before a restart.                 *)

Bytes == 0..255
Emulations == {WIFI, MK5017}
Models == {MODEL_GC_1005, MODEL_GC_1092D, MODEL_GC_1092A, MODEL_GC_1094,
           MODEL_BOGUS}

EepromInit ==
    /\ \E e \in Bytes, md \in Bytes :
           m = BootGlobals([e |-> e, md |-> md], rtcFactory)
    /\ pc = "boot"
    /\ micros = 0
    /\ held = {}
    /\ mains = TRUE
    /\ iter = 0
    /\ toggles = 0
    /\ ev = NoEv
    /\ clock = 0
    /\ hist = NoHist

\* setupConfigInit: info = loadEEPROM()
EepromLoad ==
    /\ pc = "boot"
    /\ m' = [m EXCEPT !.info = loadEEPROM(m.eeprom)]
    /\ pc' = "loaded"
    /\ ev' = [op |-> "load"]
    /\ UNCHANGED <<micros, held, mains, iter, toggles, clock, hist>>

\* saveEEPROM followed by the restart that every caller makes
EepromSave(emu, model) ==
    /\ pc = "loaded"
    /\ iter = 0
    /\ m' = Reboot(saveEEPROM(m, emu, model))
    /\ pc' = "boot"
    /\ iter' = 1
    /\ ev' = [op |-> "save"]
    /\ UNCHANGED <<micros, held, mains, toggles, clock, hist>>

EepromNext ==
    \/ EepromLoad
    \/ \E emu \in Emulations, model \in Models : EepromSave(emu, model)

SpecEEPROM == EepromInit /\ [][EepromNext]_vars

\* C9: for every pair of stored bytes loadEEPROM returns an emulation in
\* {WIFI, MK5017} and a model of the Model enumeration; a byte in range is
\* returned as it is and a byte out of range gives the default of its own
\* field, whatever the other byte is.
C9_LoadFallsBack ==
    pc = "loaded" =>
        /\ m.info.emulation \in Emulations
        /\ m.info.model \in Models
        /\ m.info.emulation = IF m.eeprom.e \in Emulations THEN m.eeprom.e
                              ELSE defaultEmulation
        /\ m.info.model = IF m.eeprom.md \in Models THEN m.eeprom.md
                          ELSE defaultModel

C9_Witness ==
    /\ pc = "loaded"
    /\ m.eeprom.e = 99 /\ m.eeprom.md = MODEL_GC_1092A
    /\ m.info.emulation = WIFI /\ m.info.model = MODEL_GC_1092A

----------------------------------------------------------------------------
(* SpecEdit: the TIME or ALARM editor with any buffer value; increments on *)
(* a pulse, commit, and re-entry before the clock advances.                *)

EditRtc == [rtcFactory EXCEPT !.mo = 3, !.d = 5, !.h = 10, !.mi = 20,
                              !.s = 30, !.a1 = DateTime(1, 1, 7, 0, 0),
                              !.a2 = DateTime(3, 5, 22, 20, 0)]

\* the device after setup() in MK5017 emulation with a valid backup clock
EditBase ==
    setupEmulationInit(
        setupConfigInit(BootGlobals([e |-> MK5017, md |-> MODEL_GC_1005],
                                    EditRtc)),
        [rtcOK |-> TRUE, wifiOK |-> TRUE, ntpTime |-> tzBoot])

Buffer(s) == [hr24 |-> s.hr24, minutes |-> s.minutes, seconds |-> s.seconds]

EditInit ==
    /\ \E h \in 0..23, mi \in 0..59, hold \in BOOLEAN,
          target \in {"EDIT_TIME", "EDIT_ALARM"} :
           m = updateStrings(
                   [enterSetMode([EditBase EXCEPT !.sw[SW_HOLD].state = hold],
                                 target)
                    EXCEPT !.hr24 = h, !.minutes = mi])
    /\ pc = "edit"
    /\ micros = 0
    /\ held = {}
    /\ mains = TRUE
    /\ iter = 0
    /\ toggles = 0
    /\ ev = NoEv
    /\ clock = 0
    /\ hist = NoHist

\* handleSetMode's increment part on a pulse, with the hour switch at k3
\* and the minute switch at k4
EditPulse(k3, k4) ==
    /\ pc = "edit"
    /\ clock < MaxEditSteps
    /\ m' = [EditTick([m EXCEPT !.sw[3].state = k3, !.sw[4].state = k4,
                                !.topOfSecond = TRUE])
             EXCEPT !.topOfSecond = FALSE]
    /\ ev' = [op |-> "pulse", k3 |-> k3, k4 |-> k4,
              hold |-> m.sw[SW_HOLD].state, target |-> m.activeTarget,
              buf |-> Buffer(m)]
    /\ clock' = clock + 1
    /\ UNCHANGED <<pc, micros, held, mains, iter, toggles, hist>>

EditCommit ==
    /\ pc = "edit"
    /\ m' = commitSetMode(m)
    /\ pc' = "committed"
    /\ ev' = [op |-> "commit", hold |-> m.sw[SW_HOLD].state,
              target |-> m.activeTarget, buf |-> Buffer(m)]
    /\ UNCHANGED <<micros, held, mains, iter, toggles, clock, hist>>

\* the editor is entered again on the same target
EditReenter ==
    /\ pc = "committed"
    /\ m' = enterSetMode(m, ev.target)
    /\ pc' = "reentered"
    /\ ev' = [ev EXCEPT !.op = "reenter"]
    /\ UNCHANGED <<micros, held, mains, iter, toggles, clock, hist>>

EditNext ==
    \/ \E k3 \in BOOLEAN, k4 \in BOOLEAN : EditPulse(k3, k4)
    \/ EditCommit
    \/ EditReenter

SpecEdit == EditInit /\ [][EditNext]_vars

\* C4: editing TIME or ALARM with hold not engaged, one increment step from
\* any buffer (hour 0..23, minute 0..59): both switches add 10 to the
\* minutes modulo 60, the hour switch alone adds 1 to the hour modulo 24,
\* the minute switch alone advances the ones digit of the minutes modulo 10
\* and keeps the tens digit; the buffer stays within 0..23 and 0..59.
C4_IncrementStep ==
    (ev.op = "pulse" /\ ~ev.hold) =>
        /\ (ev.k3 /\ ev.k4) =>
              /\ m.minutes = (ev.buf.minutes + 10) % 60
              /\ m.hr24 = ev.buf.hr24
        /\ (ev.k3 /\ ~ev.k4) =>
              /\ m.hr24 = (ev.buf.hr24 + 1) % 24
              /\ m.minutes = ev.buf.minutes
        /\ (~ev.k3 /\ ev.k4) =>
              /\ m.minutes % 10 = ((ev.buf.minutes % 10) + 1) % 10
              /\ m.minutes \div 10 = ev.buf.minutes \div 10
              /\ m.hr24 = ev.buf.hr24
        /\ m.hr24 \in 0..23
        /\ m.minutes \in 0..59

C4_Witness ==
    /\ ev.op = "pulse" /\ ~ev.hold /\ ~ev.k3 /\ ev.k4
    /\ ev.target = "EDIT_ALARM"
    /\ ev.buf.hr24 = 23 /\ ev.buf.minutes = 59
    /\ m.hr24 = 23 /\ m.minutes = 50

\* C8: a TIME edit committed with any buffer (hour 0..23, minute 0..59) and
\* the TIME editor entered again with hold not engaged, before the clock
\* advances: the buffer is seeded with the committed hour and minute and
\* seconds 0.
C8_TimeRoundTrip ==
    (pc = "reentered" /\ ev.target = "EDIT_TIME" /\ ~ev.hold) =>
        /\ m.inEditMode /\ m.activeTarget = "EDIT_TIME"
        /\ m.hr24 = ev.buf.hr24
        /\ m.minutes = ev.buf.minutes
        /\ m.seconds = 0

C8_Witness ==
    /\ pc = "reentered" /\ ev.target = "EDIT_TIME" /\ ~ev.hold
    /\ ev.buf.hr24 = 13 /\ ev.buf.minutes = 45
    /\ m.hr24 = 13 /\ m.minutes = 45 /\ m.seconds = 0
    /\ tzHour(m.tz) = 13 /\ m.rtc.h = 13

----------------------------------------------------------------------------
(* SpecSnooze: requestSnooze in every state of the alarm engine            *)

AlarmStates == {"ALARM_IDLE", "ALARM_ARMED", "ALARM_SOUNDING", "ALARM_SNOOZE"}
SnoozeTimes == {k * SnoozeStride : k \in 0..(86399 \div SnoozeStride)}
                   \cup {86399}

SnoozeInit ==
    /\ \E st \in AlarmStates, T \in SnoozeTimes, tone \in BOOLEAN,
          target \in {0, 43620} :
           m = [EditBase EXCEPT !.alarmState = st,
                                !.alarmEnabled = TRUE,
                                !.timeSeconds = T,
                                !.toneActive = (tone /\ st = "ALARM_SOUNDING"),
                                !.snoozeTargetS = target]
    /\ pc = "alarm"
    /\ micros = 0
    /\ held = {}
    /\ mains = TRUE
    /\ iter = 0
    /\ toggles = 0
    /\ ev = NoEv
    /\ clock = 0
    /\ hist = NoHist

Snooze ==
    /\ clock < MaxSnoozeCalls
    /\ m' = requestSnooze(m)
    /\ ev' = [op |-> "snooze", alarmState |-> m.alarmState,
              timeSeconds |-> m.timeSeconds,
              snoozeTargetS |-> m.snoozeTargetS]
    /\ clock' = clock + 1
    /\ UNCHANGED <<pc, micros, held, mains, iter, toggles, hist>>

SpecSnooze == SnoozeInit /\ [][Snooze]_vars

\* C7: requestSnooze while SOUNDING at timeSeconds T sets snoozeTargetS to
\* T + 420, stops the tone and moves the engine to SNOOZE; in IDLE, ARMED
\* and SNOOZE it changes neither alarmState nor snoozeTargetS.
C7_SnoozeOnlySounding ==
    ev.op = "snooze" =>
        IF ev.alarmState = "ALARM_SOUNDING"
        THEN /\ m.snoozeTargetS = ev.timeSeconds + 420
             /\ ~m.toneActive
             /\ m.alarmState = "ALARM_SNOOZE"
        ELSE /\ m.alarmState = ev.alarmState
             /\ m.snoozeTargetS = ev.snoozeTargetS

C7_Witness ==
    /\ ev.op = "snooze" /\ ev.alarmState = "ALARM_SOUNDING"
    /\ ev.timeSeconds = 25200
    /\ m.alarmState = "ALARM_SNOOZE" /\ m.snoozeTargetS = 25620
    /\ ~m.toneActive

----------------------------------------------------------------------------
(* SpecAlarm: MK5017 emulation, alarm switch on, power-up one second       *)
(* before the alarm time; the alarm is left enabled and nothing is touched *)
(* while the seconds pass.                                                 *)

AlarmRtcs ==
    { [rtcFactory EXCEPT !.h = 6, !.mi = 59, !.s = 59,
                         !.a1 = DateTime(1, 1, 7, 0, 0),
                         !.a2 = DateTime(1, 1, 8, 30, 0)],
      [rtcFactory EXCEPT !.h = 23, !.mi = 58, !.s = 59,
                         !.a1 = DateTime(1, 1, 23, 59, 0),
                         !.a2 = DateTime(1, 1, 23, 59, 0)] }

AlarmInit ==
    /\ \E r \in AlarmRtcs :
           m = BootGlobals([e |-> MK5017, md |-> MODEL_GC_1005], r)
    /\ pc = "setup"
    /\ micros = 0
    /\ held = {6}
    /\ mains = TRUE
    /\ iter = 0
    /\ toggles = 0
    /\ ev = [op |-> "boot", seen |-> NoSeen]
    /\ clock = 0
    /\ hist = NoHist

\* one iteration of loop(); clock counts the second edges after the one at
\* which the engine first went to SOUNDING
AlarmStep(cd) ==
    /\ pc = "loop"
    /\ clock < MaxAlarmSeconds
    /\ \E el \in { Elapse(m, LoopMicros) } :
       \E s0 \in { [m EXCEPT !.tz = el.tz, !.rtc = el.rtc,
                             !.curdigit = cd] } :
       \E in \in { Inputs(s0, cd, Add32(micros, LoopMicros), el.tick, "fresh") } :
       \E s1 \in { loop(s0, in) } :
           /\ ~s1.restart
           /\ m' = s1
           /\ micros' = in.now
           /\ ev' = [op |-> "alarm", tick |-> el.tick,
                     started |-> (ev.op = "alarm" /\ ev.started)
                                     \/ s1.alarmState = "ALARM_SOUNDING"]
           /\ clock' = IF el.tick /\ ev.op = "alarm" /\ ev.started
                       THEN clock + 1 ELSE clock
    /\ UNCHANGED <<pc, held, mains, iter, toggles, hist>>

AlarmNext ==
    \/ \E scan \in { <<1, 2, 3, 4, 1, 2, 3, 4>> } : Setup(scan, TRUE)
    \/ \E cd \in {0, 3} : AlarmStep(cd)

SpecAlarm == AlarmInit /\ [][AlarmNext]_vars

\* C6: for every alarm time of day, with the alarm left enabled and no
\* snooze, the engine is SOUNDING from the alarm time until 3600 seconds
\* have passed since the alarm time, and not SOUNDING from then on.
C6_SoundsOneHour ==
    (ev.op = "alarm" /\ ev.started) =>
        ((m.alarmState = "ALARM_SOUNDING") <=> (clock < ALARM_MAX_MIN * 60))

----------------------------------------------------------------------------
(* SpecSeq: WIFI emulation from power-up at several times of the week;     *)
(* loop() iterations LoopMicros apart and crossings of the touch sensor.   *)

\* a Wednesday at noon, the same day at 20:00 (outside the display window)
\* and the Saturday after it at noon
SeqStarts == { [doy |-> 0, sod |-> 12 * 3600, us |-> 0],
               [doy |-> 0, sod |-> 20 * 3600, us |-> 0],
               [doy |-> 3, sod |-> 12 * 3600, us |-> 0] }

SeqInit ==
    /\ m = BootGlobals([e |-> WIFI, md |-> MODEL_GC_1005], rtcFactory)
    /\ pc = "setup"
    /\ micros = 0
    /\ held = {}
    /\ mains = TRUE
    /\ iter = 0
    /\ toggles = 0
    /\ ev = [op |-> "boot"]
    /\ clock = 0
    /\ hist = NoHist

\* setup() with the network up and the time service answering start
SeqSetup(start) ==
    /\ pc = "setup"
    /\ m' = setupEmulationInit(
                setupConfigInit(
                    SetupChecks(m, <<0, 1, 2, 3, 4, 5, 0, 1>>, 1,
                                Add32(micros, SETUP_DELAY_US))),
                [rtcOK |-> TRUE, wifiOK |-> TRUE, ntpTime |-> start])
    /\ pc' = "loop"
    /\ micros' = Add32(micros, SetupEnd)
    /\ ev' = [op |-> "setup"]
    /\ UNCHANGED <<held, mains, iter, toggles, clock, hist>>

\* the touch sensor's interrupt
Touch ==
    /\ pc = "loop"
    /\ toggles < MaxTouches
    /\ m' = gotTouchEvent(m)
    /\ m' # m
    /\ toggles' = toggles + 1
    /\ ev' = [op |-> "touch"]
    /\ UNCHANGED <<pc, micros, held, mains, iter, clock, hist>>

\* one iteration of loop(); on a second edge ev keeps what the sequencer
\* was given and what it left
SeqStep ==
    /\ pc = "loop"
    /\ iter < SeqMaxIter
    /\ \E el \in { Elapse(m, LoopMicros) } :
       \E s0 \in { [m EXCEPT !.tz = el.tz, !.rtc = el.rtc] } :
       \E in \in { Inputs(s0, s0.curdigit, Add32(micros, LoopMicros), el.tick,
                          "fresh") } :
       \E given \in { CheckSwitches(s0, in) } :
       \E left \in { updateDisplayStateIfNeeded(given) } :
       \E s1 \in { loop(s0, in) } :
           /\ ~s1.restart
           /\ m' = s1
           /\ micros' = in.now
           /\ ev' = [op |-> "loop", tick |-> el.tick,
                     datecounter |-> given.datecounter,
                     mode |-> given.currentDisplayMode,
                     manualOverride |-> given.manualOverride,
                     overrideForBlank |-> given.overrideForBlank,
                     weekend |-> IsWeekend(given.tz),
                     within |-> WithinDisplayWindow(given.tz),
                     leftMode |-> left.currentDisplayMode,
                     leftCounter |-> left.datecounter]
    /\ iter' = iter + 1
    /\ UNCHANGED <<pc, held, mains, toggles, clock, hist>>

SeqNext ==
    \/ \E start \in SeqStarts : SeqSetup(start)
    \/ Touch
    \/ SeqStep

SpecSeq == SeqInit /\ [][SeqNext]_vars

\* C3 as claimed: at every second edge of the WIFI sequencer at which
\* datecounter is greater than 0, updateDisplayStateIfNeeded leaves the
\* display mode MODE_DATE, whatever the override, weekend and window flags.
C3_CountdownMeansDate ==
    (ev.op = "loop" /\ ev.tick /\ ev.datecounter > 0)
        => ev.leftMode = "MODE_DATE"

\* C3: at every second edge of the WIFI sequencer at which datecounter is
\* greater than 0 and the display mode is MODE_DATE, whatever the override,
\* weekend and window flags, updateDisplayStateIfNeeded leaves the display
\* mode MODE_DATE and takes one off datecounter.
C3_DateCountdownKeepsDate ==
    (ev.op = "loop" /\ ev.tick /\ ev.datecounter > 0
        /\ ev.mode = "MODE_DATE")
        => (ev.leftMode = "MODE_DATE"
            /\ ev.leftCounter = ev.datecounter - 1)

C3_Witness ==
    /\ ev.op = "loop" /\ ev.tick /\ ev.datecounter > 0
    /\ ev.mode = "MODE_DATE"
    /\ ev.manualOverride /\ ~ev.within
    /\ ev.leftMode = "MODE_DATE"
    /\ ev.leftCounter = ev.datecounter - 1

----------------------------------------------------------------------------
(* SpecModel: the device from power-up in MK5017 emulation with the model  *)
(* unset, while the user works the time-set and hour/month switches: the   *)
(* model editor.                                                           *)

ModelEeproms == { [e |-> MK5017, md |-> MODEL_BOGUS] }
ModelHeld == { {}, {1} }
ModelSwitches == {1, 3}
ModelScanDigits == {1, 2}
ModelSetupScans == { <<1, 2, 3, 4, 1, 2, 3, 4>>, <<0, 0, 0, 0, 0, 0, 1, 1>> }

ModelInit ==
    /\ \E ee \in ModelEeproms : m = BootGlobals(ee, rtcFactory)
    /\ pc = "setup"
    /\ micros = 0
    /\ held \in ModelHeld
    /\ mains \in BOOLEAN
    /\ iter = 0
    /\ toggles = 0
    /\ ev = [op |-> "boot", seen |-> NoSeen]
    /\ clock = 0
    /\ hist = NoHist

ModelSetup(scan) ==
    /\ iter < ModelMaxIter
    /\ Setup(scan, TRUE)

\* one iteration of loop(), ModelMicros after the one before; ev keeps what
\* the iteration found (the editor and its index, the stored bytes) and
\* what its handlers saw (press: sw_1 went stable-closed in this iteration;
\* pulse, sw3, hold: the conditions of an increment; calls: the
\* handleSetMode calls of the iteration while the editor stays open)
ModelStep(cd) ==
    /\ pc = "loop"
    /\ iter < ModelMaxIter
    /\ \E el \in { Elapse(m, ModelMicros) } :
       \E s0 \in { [m EXCEPT !.tz = el.tz, !.rtc = el.rtc,
                             !.curdigit = cd] } :
       \E in \in { Inputs(s0, cd, Add32(micros, ModelMicros), el.tick, "fresh") } :
       \E s5 \in { LoopDispatched(s0, in) } :
       \E s1 \in { loop(s0, in) } :
           /\ IF s1.restart
              THEN /\ m' = Reboot(s1)
                   /\ pc' = "setup"
                   /\ micros' = 0
              ELSE /\ m' = s1
                   /\ pc' = pc
                   /\ micros' = in.now
           /\ ev' = [op |-> "loop", tick |-> el.tick,
                     restart |-> s1.restart,
                     seen |-> NoSeen,
                     editing |-> (m.inEditMode
                                  /\ m.activeTarget = "EDIT_MODEL"),
                     index |-> m.messageindex,
                     eeprom |-> m.eeprom,
                     count |-> m.timeSetCount,
                     press |-> (s5.sw[1].state /\ ~m.sw[1].state),
                     pulse |-> (s5.topOfSecond \/ s5.halfSecond),
                     sw3 |-> s5.sw[3].state,
                     hold |-> s5.sw[SW_HOLD].state,
                     calls |-> IF s5.sw[2].changed /\ s5.sw[2].state
                               THEN 2 ELSE 1]
    /\ iter' = iter + 1
    /\ UNCHANGED <<held, mains, toggles, clock, hist>>

ModelNext ==
    \/ \E i \in ModelSwitches : Toggle(i)
    \/ \E scan \in ModelSetupScans : ModelSetup(scan)
    \/ \E cd \in ModelScanDigits : ModelStep(cd)

SpecModel == ModelInit /\ [][ModelNext]_vars

\* the increments one handleSetMode call applies in the iteration ev describes
ModelIncrement == IF ev.pulse /\ ev.sw3 /\ ~ev.hold THEN 1 ELSE 0

\* the editor opens in the iteration ev describes
ModelOpened ==
    /\ ev.op = "loop" /\ ~ev.restart /\ ~ev.editing
    /\ m.inEditMode /\ m.activeTarget = "EDIT_MODEL"

\* the index starts at 0 (an increment pulse of the opening iteration acts
\* on it at once)
ModelStartsAtZero ==
    ModelOpened => m.messageindex = ModelIncrement

\* while the editor stays open each increment is a step of 0,1,2,3,0 and
\* the stored bytes are left alone
ModelCycles ==
    (ev.op = "loop" /\ ev.editing /\ ~ev.restart) =>
        /\ m.inEditMode /\ m.activeTarget = "EDIT_MODEL"
        /\ ev.index \in 0..3
        /\ m.messageindex = (ev.index + ev.calls * ModelIncrement) % 4
        /\ m.eeprom = ev.eeprom

\* a restart of the open editor stores the displayed index, one of the four
\* models, and leaves the emulation byte alone
ModelCommitStores ==
    (ev.op = "loop" /\ ev.editing /\ ev.restart /\ m.eeprom # ev.eeprom) =>
        /\ ev.press
        /\ m.eeprom.md = (ev.index + ModelIncrement) % 4
        /\ m.eeprom.md \in Models \ {MODEL_BOGUS}
        /\ m.eeprom.e = ev.eeprom.e
        /\ pc = "setup"

\* a fresh press of the time-set switch in the open editor commits
ModelPressCommits ==
    (ev.op = "loop" /\ ev.editing /\ ev.press) =>
        /\ ev.restart /\ pc = "setup"
        /\ m.eeprom.md = (ev.index + ModelIncrement) % 4
        /\ m.eeprom.e = ev.eeprom.e

\* C11: in the model editor the index starts at 0, each increment advances
\* it 0,1,2,3,0, and a fresh press of the time-set switch commits: the
\* stored model byte becomes the displayed index (one of the four models),
\* the stored emulation byte is unchanged and the device restarts.
C11_ModelEditorCommit ==
    /\ ModelStartsAtZero
    /\ ModelCycles
    /\ ModelCommitStores
    /\ ModelPressCommits

----------------------------------------------------------------------------
(* SpecBoot: power-up and restarts with any stored configuration, while    *)
(* the user holds or releases the time-set, hour/month and minute/day      *)
(* switches: the boot gestures of setupConfigInit, then loop().            *)

BootBytes == {WIFI, MK5017, 255}
BootModelBytes == {MODEL_GC_1005, MODEL_BOGUS, 255}
BootHeld == { {}, {3}, {4} }
BootSwitches == {1, 3, 4}
BootScanDigits == {1, 2}
BootSetupScans == { <<1, 2, 3, 4, 1, 2, 3, 4>>, <<0, 0, 0, 0, 0, 0, 0, 0>> }
\* the battery-backed clock at 10:20:30 with its validity window to 12:20
BootRtc == [rtcFactory EXCEPT !.h = 10, !.mi = 20, !.s = 30,
                              !.a1 = DateTime(1, 1, 7, 0, 0),
                              !.a2 = DateTime(1, 1, 12, 20, 0)]

BootInit ==
    /\ \E e \in BootBytes, md \in BootModelBytes :
           m = BootGlobals([e |-> e, md |-> md], BootRtc)
    /\ pc = "setup"
    /\ micros = 0
    /\ held \in BootHeld
    /\ mains \in BOOLEAN
    /\ iter = 0
    /\ toggles = 0
    /\ ev = [op |-> "boot", after |-> "power"]
    /\ clock = 0
    /\ hist = NoHist

\* what made setup() end as it did
BootCause(cfg, s1) ==
    IF ~s1.restart THEN "run"
    ELSE IF cfg.eeprom = s1.eeprom THEN "wifi"
    ELSE IF cfg.eeprom.e = s1.eeprom.e THEN "reset" ELSE "toggle"

\* setup(); ev keeps the stored bytes it found, the configuration it
\* loaded, the switches as setupConfigInit debounced them, how it ended
\* (cause) and how the boot before it had ended (after)
BootSetup(scan, wifiOK) ==
    /\ pc = "setup"
    /\ iter < BootMaxIter
    /\ \E cfg \in { SetupChecks(m, scan, 1, Add32(micros, SETUP_DELAY_US)) } :
       \E s1 \in { setupEmulationInit(
                       setupConfigInit(cfg),
                       [rtcOK |-> TRUE, wifiOK |-> wifiOK,
                        ntpTime |-> tzBoot]) } :
           /\ IF s1.restart
              THEN /\ m' = Reboot(s1)
                   /\ pc' = "setup"
                   /\ micros' = 0
              ELSE /\ m' = s1
                   /\ pc' = "loop"
                   /\ micros' = Add32(micros, SetupEnd)
           /\ ev' = [op |-> "setup", restart |-> s1.restart,
                     eeprom |-> m.eeprom, rtc |-> m.rtc,
                     info |-> loadEEPROM(m.eeprom),
                     sw3 |-> cfg.sw[3].state, sw4 |-> cfg.sw[4].state,
                     cause |-> BootCause(cfg, s1),
                     after |-> IF ev.op = "setup" THEN ev.cause
                               ELSE IF ev.op = "loop" THEN "loop"
                               ELSE "power"]
    /\ iter' = iter + 1
    /\ UNCHANGED <<held, mains, toggles, clock, hist>>

\* one iteration of loop()
BootStep(cd) ==
    /\ pc = "loop"
    /\ iter < BootMaxIter
    /\ \E el \in { Elapse(m, LoopMicros) } :
       \E s0 \in { [m EXCEPT !.tz = el.tz, !.rtc = el.rtc,
                             !.curdigit = cd] } :
       \E in \in { Inputs(s0, cd, Add32(micros, LoopMicros), el.tick, "fresh") } :
       \E s1 \in { loop(s0, in) } :
           /\ IF s1.restart
              THEN /\ m' = Reboot(s1)
                   /\ pc' = "setup"
                   /\ micros' = 0
              ELSE /\ m' = s1
                   /\ pc' = pc
                   /\ micros' = in.now
           /\ ev' = [op |-> "loop", restart |-> s1.restart,
                     eeprom |-> m.eeprom, info |-> m.info,
                     editing |-> (m.inEditMode
                                  /\ m.activeTarget = "EDIT_MODEL")]
    /\ iter' = iter + 1
    /\ UNCHANGED <<held, mains, toggles, clock, hist>>

BootNext ==
    \/ \E i \in BootSwitches : Toggle(i)
    \/ \E scan \in BootSetupScans, ok \in BOOLEAN : BootSetup(scan, ok)
    \/ \E cd \in BootScanDigits : BootStep(cd)

SpecBoot == BootInit /\ [][BootNext]_vars

Flipped(emu) == IF emu = WIFI THEN MK5017 ELSE WIFI

\* C12: the stored emulation changes only in setup() with the hour/month
\* switch held, to the other emulation, with a restart; a loop() iteration
\* leaves the emulation and model in RAM alone; and after every write to the
\* stored bytes the device restarts before loop() runs again.
C12_EmulationOnlyAtBoot ==
    ev.op \in {"setup", "loop"} =>
        /\ (m.eeprom.e # ev.eeprom.e) =>
               /\ ev.op = "setup" /\ ev.sw3
               /\ m.eeprom.e = Flipped(ev.info.emulation)
               /\ ev.restart
        /\ (ev.op = "loop" /\ ~ev.restart) => m.info = ev.info
        /\ (m.eeprom # ev.eeprom) =>
               /\ ev.restart /\ pc = "setup"
               /\ \/ ev.op = "setup" /\ ev.cause \in {"reset", "toggle"}
                  \/ ev.op = "loop" /\ ev.editing

C12_Witness ==
    /\ ev.op = "setup" /\ ev.sw3 /\ ev.restart
    /\ ev.info.emulation = MK5017 /\ ev.eeprom.e = MK5017
    /\ m.eeprom.e = WIFI
    /\ pc = "setup"

\* C13: a boot that toggles the emulation leaves the stored model UNSET
\* (MODEL_BOGUS), so that the model is selected again in the new emulation.
C13_ToggleResetsModel ==
    (ev.op = "setup" /\ ev.cause = "toggle") => m.eeprom.md = MODEL_BOGUS

\* setup() with the minute/day switch held in MK5017 emulation stores
\* MODEL_BOGUS with the emulation unchanged, clears the alarm slots of the
\* battery-backed clock and restarts
MinuteHoldResets ==
    (ev.op = "setup" /\ ev.info.emulation = MK5017 /\ ev.sw4) =>
        /\ ev.restart /\ pc = "setup"
        /\ m.eeprom = [e |-> ev.eeprom.e, md |-> MODEL_BOGUS]
        /\ m.rtc.a1 = DateTime(1, 1, 0, 0, 0)
        /\ m.rtc.a2 = DateTime(1, 1, 0, 0, 0)

\* the boot after that restart runs with the hold detector disabled
MinuteHoldDisablesHold ==
    (ev.op = "setup" /\ ev.after = "reset" /\ ~ev.restart) =>
        m.Disable_swHOLD

\* in WIFI emulation the minute/day switch held at boot changes nothing
MinuteHoldIgnoredInWifi ==
    (ev.op = "setup" /\ ev.info.emulation = WIFI /\ ev.sw4 /\ ~ev.sw3) =>
        /\ m.eeprom = ev.eeprom
        /\ m.rtc.a1 = ev.rtc.a1 /\ m.rtc.a2 = ev.rtc.a2
        /\ (ev.restart => ev.cause = "wifi")

\* C14: the minute/day switch held at boot in MK5017 emulation stores model
\* UNSET with the emulation unchanged, clears the backup-validity marker and
\* restarts, and the hold detector is disabled when the clock runs after
\* that restart; in WIFI emulation the same hold changes nothing.
C14_MinuteHoldAtBoot ==
    /\ MinuteHoldResets
    /\ MinuteHoldDisablesHold
    /\ MinuteHoldIgnoredInWifi

----------------------------------------------------------------------------
(* SpecGesture: the user opens and closes the time-set switch while loop() *)
(* runs; clock counts the closures of sw_1 that the debouncer has          *)
(* registered since the device started.                                    *)

GestureEeproms == { [e |-> WIFI, md |-> MODEL_GC_1005],
                    [e |-> MK5017, md |-> MODEL_GC_1005] }
GestureHeld == { {}, {1} }
GestureScanDigits == {0, 1}
GestureSetupScans == { <<1, 2, 3, 4, 1, 2, 3, 4>> }

GestureInit ==
    /\ \E ee \in GestureEeproms : m = BootGlobals(ee, BootRtc)
    /\ pc = "setup"
    /\ micros = 0
    /\ held \in GestureHeld
    /\ mains = TRUE
    /\ iter = 0
    /\ toggles = 0
    /\ ev = [op |-> "boot"]
    /\ clock = 0
    /\ hist = NoHist

\* the user opens or closes the time-set switch
GestureToggle ==
    /\ toggles < GestureMaxToggles
    /\ held' = IF 1 \in held THEN held \ {1} ELSE held \cup {1}
    /\ toggles' = toggles + 1
    /\ UNCHANGED <<m, pc, micros, mains, iter, ev, clock, hist>>

\* setup(): a switch that is closed at power-up is registered as closed by
\* the CheckSwitches calls of setupConfigInit
GestureSetup(scan) ==
    /\ pc = "setup"
    /\ iter < GestureMaxIter
    /\ \E s1 \in { setupEmulationInit(
                       setupConfigInit(
                           SetupChecks(m, scan, 1, Add32(micros, SETUP_DELAY_US))),
                       [rtcOK |-> TRUE, wifiOK |-> TRUE,
                        ntpTime |-> tzBoot]) } :
           /\ m' = s1
           /\ clock' = IF s1.sw[1].state THEN 1 ELSE 0
    /\ pc' = "loop"
    /\ micros' = Add32(micros, SetupEnd)
    /\ ev' = [op |-> "setup"]
    /\ iter' = iter + 1
    /\ UNCHANGED <<held, mains, toggles, hist>>

\* one iteration of loop(), GestureMicros after the one before; ev keeps
\* the closures registered up to and in this iteration (presses), whether
\* this iteration registered one (press), and the gesture's count and
\* window as the iteration found and left them
GestureStep(cd) ==
    /\ pc = "loop"
    /\ iter < GestureMaxIter
    /\ \E el \in { Elapse(m, GestureMicros) } :
       \E s0 \in { [m EXCEPT !.tz = el.tz, !.rtc = el.rtc,
                             !.curdigit = cd] } :
       \E in \in { Inputs(s0, cd, Add32(micros, GestureMicros), el.tick, "fresh") } :
       \E s1 \in { loop(s0, in) } :
       \E press \in { s1.sw[1].state /\ ~m.sw[1].state } :
       \E n \in { IF press THEN clock + 1 ELSE clock } :
           /\ IF s1.restart
              THEN /\ m' = Reboot(s1)
                   /\ pc' = "setup"
                   /\ micros' = 0
                   /\ clock' = 0
              ELSE /\ m' = s1
                   /\ pc' = pc
                   /\ micros' = in.now
                   /\ clock' = n
           /\ ev' = [op |-> "loop", restart |-> s1.restart,
                     press |-> press, presses |-> n,
                     countBefore |-> m.timeSetCount,
                     count |-> s1.timeSetCount,
                     sinceFirst |-> Sub32(Millis(in.now), m.startTime)]
    /\ iter' = iter + 1
    /\ UNCHANGED <<held, mains, toggles, hist>>

GestureNext ==
    \/ GestureToggle
    \/ \E scan \in GestureSetupScans : GestureSetup(scan)
    \/ \E cd \in GestureScanDigits : GestureStep(cd)

SpecGesture == GestureInit /\ [][GestureNext]_vars

\* C15: loop() restarts the device by the time-set gesture when, and only
\* when, a third registered closure of the switch comes within 5 s of the
\* first; one or two closures never restart, and a closure later than 5 s
\* after the first starts a new count at 1.
C15_ThreePresses ==
    ev.op = "loop" =>
        /\ ev.restart <=> (/\ ev.press /\ ev.countBefore = 2
                           /\ ev.sinceFirst <= RESET_WINDOW_MS)
        /\ ev.restart => ev.presses >= 3
        /\ (ev.press /\ ev.countBefore > 0
              /\ ev.sinceFirst > RESET_WINDOW_MS) => ev.count = 1
        /\ (~ev.press /\ ~ev.restart) => ev.count = ev.countBefore

\* C16: when the stored model byte is not one of the four defined models,
\* no model is adopted at startup and the clock is in the model editor
\* when it runs: setup() leaves the model unset and every loop() iteration
\* ends with the editor active on EDIT_MODEL.
C16_InvalidModelSelects ==
    /\ (ev.op = "setup" /\ ~ev.restart
          /\ ev.eeprom.md \notin Models \ {MODEL_BOGUS}) =>
           m.info.model = MODEL_BOGUS
    /\ (ev.op = "loop" /\ ~ev.restart
          /\ ev.eeprom.md \notin Models \ {MODEL_BOGUS}) =>
           (m.inEditMode /\ m.activeTarget = "EDIT_MODEL")

----------------------------------------------------------------------------
(* SpecBackup: the clock refreshes the validity window of the battery-     *)
(* backed clock (keepRTCinsync), loses power for some time while the       *)
(* battery-backed clock keeps running, and starts again in MK5017          *)
(* emulation; clock is the length of the outage in seconds.                *)

\* the battery-backed clock secs seconds later
rtcAfter(rtc, secs) ==
    LET total == rtc.h * 3600 + rtc.mi * 60 + rtc.s + secs
        t     == [doy |-> (DaysBefore(rtc.mo) + (rtc.d - 1)
                              + (total \div 86400)) % 365,
                  sod |-> total % 86400, us |-> 0]
    IN  rtcSetClock(rtc, DateTime(tzMonth(t), tzDay(t), tzHour(t),
                                  tzMinute(t), tzSecond(t)))

BackupEeprom == [e |-> MK5017, md |-> MODEL_GC_1005]
\* the times of day of the last refresh
RefreshTimes == {k * BackupStride : k \in 0..((86400 \div BackupStride) - 1)}

BackupInit ==
    /\ \E r \in RefreshTimes :
           m = Reboot(keepRTCinsync(
                   BootGlobals(BackupEeprom,
                               rtcAfter([rtcFactory EXCEPT !.mo = 3, !.d = 5],
                                        r))))
    /\ pc = "off"
    /\ micros = 0
    /\ held = {}
    /\ mains = TRUE
    /\ iter = 0
    /\ toggles = 0
    /\ ev = [op |-> "refresh"]
    /\ clock = 0
    /\ hist = NoHist

\* the outage lasts BackupStride seconds longer
BackupOutage ==
    /\ pc = "off"
    /\ clock + BackupStride <= MaxOutageSeconds
    /\ m' = [m EXCEPT !.rtc = rtcAfter(m.rtc, BackupStride)]
    /\ clock' = clock + BackupStride
    /\ UNCHANGED <<pc, micros, held, mains, iter, toggles, ev, hist>>

\* the time of the battery-backed clock was taken over by setupEmulationInit
Seeded(before, s) ==
    /\ s.alarmSet
    /\ s.currentDisplayMode = "MODE_TIME"
    /\ rtcNow(s.rtc) = rtcNow(before.rtc)
    /\ s.tz = tzSetTime(before.rtc.h, before.rtc.mi, before.rtc.s,
                        before.rtc.d, before.rtc.mo)

\* power returns: setup()
BackupBoot ==
    /\ pc = "off"
    /\ \E s1 \in { setupEmulationInit(
                       setupConfigInit(
                           SetupChecks(m, <<1, 2, 3, 4, 1, 2, 3, 4>>, 1,
                                       Add32(micros, SETUP_DELAY_US))),
                       [rtcOK |-> TRUE, wifiOK |-> TRUE,
                        ntpTime |-> tzBoot]) } :
           /\ m' = s1
           /\ ev' = [op |-> "boot", trusted |-> Seeded(m, s1),
                     at |-> SecondsOfDay(m.rtc.h, m.rtc.mi, m.rtc.s)]
    /\ pc' = "loop"
    /\ micros' = Add32(micros, SetupEnd)
    /\ UNCHANGED <<held, mains, iter, toggles, clock, hist>>

BackupNext == BackupOutage \/ BackupBoot

SpecBackup == BackupInit /\ [][BackupNext]_vars

\* C17: at boot in MK5017 emulation the time of the battery-backed clock is
\* taken over if and only if the outage since the last refresh of the
\* validity window is no longer than BatteryBackup hours, whatever the time
\* of day of the refresh and the length of the outage.
C17_TrustedWithinWindow ==
    ev.op = "boot" => (ev.trusted <=> clock <= BatteryBackup * 3600)

----------------------------------------------------------------------------
(* SpecOta: the user closes and opens the hour/month and minute/day        *)
(* switches while loop() runs, in either emulation; an iteration follows   *)
(* the one before after LoopMicros, or after OtaIdleMicros when the loop   *)
(* was held up.                                                            *)

\* the clocks after a hold-up of dt microseconds (whole seconds and the rest)
tzAfter(tz, secs) ==
    [tz EXCEPT !.sod = (tz.sod + secs) % 86400,
               !.doy = (tz.doy + ((tz.sod + secs) \div 86400)) % 365]

ElapseTick(el, secs) == [el EXCEPT !.tick = el.tick \/ secs > 0]

ElapseLong(s, dt) ==
    ElapseTick(Elapse([s EXCEPT !.tz = tzAfter(s.tz, dt \div 1000000),
                                !.rtc = rtcAfter(s.rtc, dt \div 1000000)],
                      dt % 1000000),
               dt \div 1000000)

OtaEeproms == { [e |-> WIFI, md |-> MODEL_GC_1005],
                [e |-> MK5017, md |-> MODEL_GC_1005] }
\* with the time-set switch closed at power-up the TIME editor opens (MK5017)
OtaHeld == { {}, {1} }
OtaSwitches == {3, 4}
OtaScanDigits == {0, 2}
OtaSteps == {LoopMicros, OtaIdleMicros}

OtaInit ==
    /\ \E ee \in OtaEeproms : m = BootGlobals(ee, BootRtc)
    /\ pc = "setup"
    /\ micros = 0
    /\ held \in OtaHeld
    /\ mains \in BOOLEAN
    /\ iter = 0
    /\ toggles = 0
    /\ ev = [op |-> "boot"]
    /\ clock = 0
    /\ hist = NoHist

OtaSetup ==
    /\ iter < OtaMaxIter
    /\ Setup(<<1, 2, 3, 4, 1, 2, 3, 4>>, TRUE)

\* one iteration of loop(), dt microseconds after the one before; ev keeps
\* millis() of the iteration and the OTA flag, its start time and the
\* editor flag as the iteration found them
OtaStep(cd, dt) ==
    /\ pc = "loop"
    /\ iter < OtaMaxIter
    /\ \E el \in { ElapseLong(m, dt) } :
       \E s0 \in { [m EXCEPT !.tz = el.tz, !.rtc = el.rtc,
                             !.curdigit = cd] } :
       \E in \in { Inputs(s0, cd, Add32(micros, dt), el.tick, "fresh") } :
       \E s1 \in { loop(s0, in) } :
           /\ IF s1.restart
              THEN /\ m' = Reboot(s1)
                   /\ pc' = "setup"
                   /\ micros' = 0
              ELSE /\ m' = s1
                   /\ pc' = pc
                   /\ micros' = in.now
           /\ ev' = [op |-> "loop", restart |-> s1.restart,
                     ms |-> Millis(in.now),
                     otaBefore |-> m.otaModeActive,
                     startBefore |-> m.otaStartTime,
                     editBefore |-> m.inEditMode]
    /\ iter' = iter + 1
    /\ UNCHANGED <<held, mains, toggles, clock, hist>>

OtaNext ==
    \/ \E i \in OtaSwitches : Toggle(i)
    \/ OtaSetup
    \/ \E cd \in OtaScanDigits, dt \in OtaSteps : OtaStep(cd, dt)

SpecOta == OtaInit /\ [][OtaNext]_vars

----------------------------------------------------------------------------
(* SpecNap: MK5017 emulation with the alarm switch on; the alarm goes off, *)
(* the user presses snooze once, and loop() runs on; clock counts the      *)
(* second edges since the first snooze was accepted.                       *)

\* the alarm at 07:00 and at 23:56, the clock two seconds before it
NapRtcs ==
    { [rtcFactory EXCEPT !.h = 6, !.mi = 59, !.s = 58,
                         !.a1 = DateTime(1, 1, 7, 0, 0),
                         !.a2 = DateTime(1, 1, 8, 30, 0)],
      [rtcFactory EXCEPT !.h = 23, !.mi = 55, !.s = 58,
                         !.a1 = DateTime(1, 1, 23, 56, 0),
                         !.a2 = DateTime(1, 1, 23, 59, 0)] }

NapInit ==
    /\ \E r \in NapRtcs :
           m = BootGlobals([e |-> MK5017, md |-> MODEL_GC_1005], r)
    /\ pc = "setup"
    /\ micros = 0
    /\ held = {6}
    /\ mains = TRUE
    /\ iter = 0
    /\ toggles = 0
    /\ ev = [op |-> "boot", seen |-> NoSeen]
    /\ clock = 0
    /\ hist = NoHist

\* the user presses the snooze switch while the alarm sounds
NapPress ==
    /\ pc = "loop"
    /\ m.alarmState = "ALARM_SOUNDING"
    /\ toggles = 0
    /\ held' = held \cup {5}
    /\ toggles' = 1
    /\ UNCHANGED <<m, pc, micros, mains, iter, ev, clock, hist>>

\* one iteration of loop(); ev.snoozed: a snooze has been accepted, the
\* latest one at time of day ev.at, ev.secs second edges ago
NapStep(cd) ==
    /\ pc = "loop"
    /\ clock < MaxNapSeconds
    /\ \E el \in { Elapse(m, NapMicros) } :
       \E s0 \in { [m EXCEPT !.tz = el.tz, !.rtc = el.rtc,
                             !.curdigit = cd] } :
       \E in \in { Inputs(s0, cd, Add32(micros, NapMicros), el.tick, "fresh") } :
       \E s1 \in { loop(s0, in) } :
       \E was \in { ev.op = "nap" /\ ev.snoozed } :
       \E accepted \in { m.alarmState = "ALARM_SOUNDING"
                          /\ s1.alarmState = "ALARM_SNOOZE" } :
           /\ ~s1.restart
           /\ was \/ iter < NapMaxWait
           /\ iter' = IF was THEN iter ELSE iter + 1
           /\ m' = s1
           /\ micros' = in.now
           /\ ev' = [op |-> "nap", tick |-> el.tick,
                     snoozed |-> was \/ accepted,
                     at |-> IF accepted THEN s1.timeSeconds
                            ELSE IF was THEN ev.at ELSE 0,
                     secs |-> IF accepted \/ ~was THEN 0
                              ELSE IF el.tick THEN ev.secs + 1 ELSE ev.secs]
           /\ clock' = IF el.tick /\ was THEN clock + 1 ELSE clock
    /\ UNCHANGED <<pc, held, mains, toggles, hist>>

NapNext ==
    \/ \E scan \in { <<1, 2, 3, 4, 1, 2, 3, 4>> } : Setup(scan, TRUE)
    \/ NapPress
    \/ \E cd \in {0, 3} : NapStep(cd)

SpecNap == NapInit /\ [][NapNext]_vars

\* C19: after a snooze accepted at any time of day, with the alarm left
\* enabled, the engine is in SNOOZE until 420 seconds have passed and
\* SOUNDING again from then on, also when the snooze is accepted in the
\* last 7 minutes before midnight.
C19_SnoozeEnds ==
    (ev.op = "nap" /\ ev.snoozed /\ m.alarmEnabled) =>
        IF ev.secs < SNOOZE_MIN * 60
        THEN m.alarmState = "ALARM_SNOOZE"
        ELSE m.alarmState = "ALARM_SOUNDING"

----------------------------------------------------------------------------
(* SpecSched: WIFI emulation from power-up a few seconds before the        *)
(* display window opens or closes; loop() iterations SchedMicros apart and *)
(* crossings of the touch sensor.                                          *)

\* a Wednesday at 07:29:54 and at 17:59:54
SchedStarts == { [doy |-> 0, sod |-> 7 * 3600 + 29 * 60 + 54, us |-> 0],
                 [doy |-> 0, sod |-> 17 * 3600 + 59 * 60 + 54, us |-> 0] }

\* the touch sensor's interrupt
SchedTouch ==
    /\ pc = "loop"
    /\ toggles < SchedMaxTouches
    /\ m' = gotTouchEvent(m)
    /\ m' # m
    /\ toggles' = toggles + 1
    /\ UNCHANGED <<pc, micros, held, mains, iter, ev, clock, hist>>

\* one iteration of loop(); ev keeps what the sequencer was given and what
\* it left, and in cleared the direction of the manual override that the
\* sequencer cleared last, before this iteration
SchedStep ==
    /\ pc = "loop"
    /\ iter < SchedMaxIter
    /\ \E el \in { Elapse(m, SchedMicros) } :
       \E s0 \in { [m EXCEPT !.tz = el.tz, !.rtc = el.rtc] } :
       \E in \in { Inputs(s0, s0.curdigit, Add32(micros, SchedMicros),
                          el.tick, "fresh") } :
       \E given \in { CheckSwitches(s0, in) } :
       \E left \in { updateDisplayStateIfNeeded(given) } :
       \E s1 \in { loop(s0, in) } :
       \E before \in { IF ev.op # "sched" THEN "none"
                       ELSE IF ev.clears THEN ev.direction
                       ELSE ev.cleared } :
           /\ ~s1.restart
           /\ m' = s1
           /\ micros' = in.now
           /\ ev' = [op |-> "sched", tick |-> el.tick,
                     cleared |-> before,
                     clears |-> el.tick /\ given.manualOverride
                                        /\ ~left.manualOverride,
                     direction |-> IF given.overrideForBlank THEN "blank"
                                   ELSE "show",
                     mode |-> given.currentDisplayMode,
                     datecounter |-> given.datecounter,
                     manualOverride |-> given.manualOverride,
                     weekend |-> IsWeekend(given.tz),
                     within |-> WithinDisplayWindow(given.tz),
                     leftMode |-> left.currentDisplayMode]
    /\ iter' = iter + 1
    /\ UNCHANGED <<pc, held, mains, toggles, clock, hist>>

SchedNext ==
    \/ \E start \in SchedStarts : SeqSetup(start)
    \/ SchedTouch
    \/ SchedStep

SpecSched == SeqInit /\ [][SchedNext]_vars

\* the second edges C20 is about: a manual override was cleared at an
\* earlier second edge, none is active, no DATE display is in progress, the
\* day is not a blank day and the time is inside the display window
AfterCleared(direction) ==
    /\ ev.op = "sched" /\ ev.tick
    /\ ev.cleared = direction
    /\ ~ev.manualOverride
    /\ ev.mode # "MODE_DATE"
    /\ ~ev.weekend
    /\ ev.within

\* C20 for an override that forced the display on: the sequencer sets the
\* display mode to TIME
ShowClearedFollowsSchedule ==
    AfterCleared("show") => ev.leftMode = "MODE_TIME"

\* C20 for an override that forced the display blank: the sequencer sets
\* the display mode to TIME
BlankClearedFollowsSchedule ==
    AfterCleared("blank") => ev.leftMode = "MODE_TIME"

\* C20: in WIFI emulation, at every second edge after a manual override
\* has been cleared, with no manual override active, no DATE display in
\* progress, the day not a blank day and the time inside the display
\* window, the sequencer sets the display mode to TIME, whichever direction
\* the cleared override had.
C20_ScheduleAfterOverride ==
    ShowClearedFollowsSchedule /\ BlankClearedFollowsSchedule

----------------------------------------------------------------------------
(* Precedence in the WIFI sequencer, on the second edges of SpecSeq.       *)

\* a second edge at which no DATE display is in progress
SeqEdgeNoDate == ev.op = "loop" /\ ev.tick /\ ev.mode # "MODE_DATE"

\* an active force-show override keeps TIME on a blank day or outside the
\* display window
ForceShowKeepsTime ==
    (SeqEdgeNoDate /\ ev.manualOverride /\ ~ev.overrideForBlank
        /\ (ev.weekend \/ ~ev.within))
        => ev.leftMode = "MODE_TIME"

\* an active force-show override keeps TIME outside the display window
ForceShowKeepsTimeOutside ==
    (SeqEdgeNoDate /\ ev.manualOverride /\ ~ev.overrideForBlank
        /\ ~ev.within)
        => ev.leftMode = "MODE_TIME"

\* an active force-blank override keeps the display blank inside the window
ForceBlankKeepsBlank ==
    (SeqEdgeNoDate /\ ev.manualOverride /\ ev.overrideForBlank /\ ev.within)
        => ev.leftMode = "MODE_MESSAGE"

\* without an override: weekend blanking, then time-window blanking, then
\* TIME
NaturalSchedule ==
    (SeqEdgeNoDate /\ ~ev.manualOverride /\ ~ev.overrideForBlank)
        => ev.leftMode = IF ev.weekend \/ ~ev.within THEN "MODE_MESSAGE"
                         ELSE "MODE_TIME"

\* C21: at every second edge of the WIFI sequencer the precedence is DATE
\* display in progress, then manual override, then weekend blanking, then
\* time-window blanking, then TIME; an active force-show override keeps
\* TIME on a blank day and outside the window, an active force-blank
\* override keeps the display blank inside the window.
C21_Precedence ==
    /\ C3_DateCountdownKeepsDate
    /\ ForceShowKeepsTime
    /\ ForceBlankKeepsBlank
    /\ NaturalSchedule

----------------------------------------------------------------------------
(* The life of a manual override, on the second edges of SpecSched.        *)

\* a second edge that finds a manual override in force
OverrideEdge == ev.op = "sched" /\ ev.tick /\ ev.manualOverride

\* the natural window state matches the override's target
OverrideMatches ==
    \/ ev.direction = "show" /\ ev.within
    \/ ev.direction = "blank" /\ ~ev.within

\* C22 as claimed: at every second edge a manual override stays in force
\* while the window state differs from its target and is cleared at the
\* first edge where they match.
C22_OverrideUntilMatch ==
    OverrideEdge => (ev.clears <=> OverrideMatches)

\* C22: at every second edge a manual override stays in force while the
\* window state differs from its target or a DATE countdown is running,
\* and is cleared at the first edge where they match and no DATE countdown
\* is running.
C22_OverrideUntilMatchNoDate ==
    OverrideEdge =>
        (ev.clears <=> (OverrideMatches
                        /\ ~(ev.mode = "MODE_DATE" /\ ev.datecounter > 0)))

C22_Witness ==
    /\ OverrideEdge /\ OverrideMatches /\ ev.clears
    /\ ev.direction = "show" /\ ev.mode = "MODE_TIME"

----------------------------------------------------------------------------
(* SpecEditor: MK5017 emulation from power-up with the time-set or the     *)
(* alarm/date switch closed; the user moves switches and the hold line     *)
(* while loop() runs.                                                      *)

EditorEeproms == { [e |-> MK5017, md |-> MODEL_GC_1005],
                   [e |-> MK5017, md |-> MODEL_GC_1092D],
                   [e |-> MK5017, md |-> MODEL_BOGUS] }
\* 10:20:06, so that the run passes the seconds 8 and 9
EditorRtc == [BootRtc EXCEPT !.s = 6]
EditorHeld == { {1}, {2} }
EditorSwitches == {1, 2, 3, 6}
EditorScanDigits == {1, 2, 3}

\* the edit buffer of a target
EditBuffer(s, target) ==
    CASE target \in {"EDIT_TIME", "EDIT_ALARM"} -> <<s.hr24, s.minutes>>
      [] target = "EDIT_DATE" -> s.displaystring
      [] OTHER -> <<s.messageindex>>

\* increment steps between the buffer of before and that of after, with
\* the switches as after has them: 0, 1, or 2 for anything else
StepsApplied(before, after) ==
    IF EditBuffer(after, before.activeTarget)
           = EditBuffer(before, before.activeTarget) THEN 0
    ELSE IF EditBuffer(after, before.activeTarget)
           = EditBuffer(EditIncrement([before EXCEPT !.sw = after.sw]),
                    before.activeTarget) THEN 1
    ELSE 2

EditorInit ==
    /\ \E ee \in EditorEeproms : m = BootGlobals(ee, EditorRtc)
    /\ pc = "setup"
    /\ micros = 0
    /\ held \in EditorHeld
    /\ mains \in BOOLEAN
    /\ iter = 0
    /\ toggles = 0
    /\ ev = [op |-> "boot", seen |-> NoSeen]
    /\ clock = 0
    /\ hist = NoHist

EditorSetup == iter < EditorMaxIter /\ Setup(<<1, 2, 3, 4, 1, 2, 3, 4>>, TRUE)

\* the user opens or closes a switch
EditorToggle(i) ==
    /\ pc = "loop"
    /\ toggles < EditorMaxToggles
    /\ held' = IF i \in held THEN held \ {i} ELSE held \cup {i}
    /\ toggles' = toggles + 1
    /\ UNCHANGED <<m, pc, micros, mains, iter, ev, clock, hist>>

\* the hold line stops or starts following the mains
EditorMains ==
    /\ pc = "loop"
    /\ toggles < EditorMaxToggles
    /\ mains' = ~mains
    /\ toggles' = toggles + 1
    /\ UNCHANGED <<m, pc, micros, held, iter, ev, clock, hist>>

\* what ev keeps of one iteration: the editor before it, the state after
\* CheckSwitches .. handleTouchEvent (s4) and after DispatchSwitches (s5)
EditorEvent(tick, s4, s5, s1) ==
    [op |-> "loop", tick |-> tick, restart |-> s1.restart,
     editing |-> m.inEditMode, target |-> m.activeTarget,
     mode |-> m.currentDisplayMode,
     pulse |-> s5.topOfSecond \/ s5.halfSecond,
     hold |-> s5.sw[SW_HOLD].state,
     timeSet |-> s5.sw[1].state, alarmSet |-> s5.sw[2].state,
     press |-> s5.sw[1].state /\ ~m.sw[1].state,
     flip |-> {i \in Switches : s5.sw[i].state # m.sw[i].state},
     steps |-> StepsApplied(m, s5),
     stored |-> s5.eeprom # m.eeprom,
     left |-> [inEditMode |-> s5.inEditMode, target |-> s5.activeTarget,
               mode |-> s5.currentDisplayMode,
               messageindex |-> s5.messageindex,
               second |-> tzSecond(s5.tz), autoDate |-> s5.autoDate,
               touchoverride |-> s5.touchoverride],
     seen |-> NoSeen]

\* one iteration of loop()
EditorStep(cd) ==
    /\ pc = "loop"
    /\ iter < EditorMaxIter
    /\ \E el \in { Elapse(m, EditorMicros) } :
       \E s0 \in { [m EXCEPT !.tz = el.tz, !.rtc = el.rtc,
                             !.curdigit = cd] } :
       \E in \in { Inputs(s0, cd, Add32(micros, EditorMicros), el.tick,
                          "fresh") } :
       \E s4 \in { handleTouchEvent(
                       updateDisplayValue(
                           handleTimedDispatches(CheckSwitches(s0, in), in)),
                       Millis(in.now)) } :
       \E s5 \in { LoopDispatched(s0, in) } :
       \E s1 \in { loop(s0, in) } :
           /\ IF s1.restart
              THEN /\ m' = Reboot(s1)
                   /\ pc' = "setup"
                   /\ micros' = 0
              ELSE /\ m' = s1
                   /\ pc' = pc
                   /\ micros' = in.now
           /\ ev' = EditorEvent(el.tick, s4, s5, s1)
    /\ iter' = iter + 1
    /\ UNCHANGED <<held, mains, toggles, clock, hist>>

EditorNext ==
    \/ EditorSetup
    \/ \E i \in EditorSwitches : EditorToggle(i)
    \/ EditorMains
    \/ \E cd \in EditorScanDigits : EditorStep(cd)

SpecEditor == EditorInit /\ [][EditorNext]_vars

\* an iteration that found the editor active and left it active on the
\* same target
StillEditing ==
    /\ ev.op = "loop" /\ ~ev.restart
    /\ ev.editing /\ ev.left.inEditMode /\ ev.left.target = ev.target

\* C23: while the editor is active, a loop() iteration with a top-of-second
\* or half-second pulse applies at most one increment step to the edit
\* buffer or the model index, also when an entry or hold edge handler and
\* the generic in-edit handler both call handleSetMode; an iteration with
\* neither pulse, or with hold engaged, applies none.
C23_OneStepPerPulse ==
    StillEditing =>
        IF ev.pulse /\ ~ev.hold THEN ev.steps <= 1 ELSE ev.steps = 0

----------------------------------------------------------------------------
(* SpecScan: CheckSwitches statement by statement (the sample of the sense *)
(* lines, then the comparisons of curdigit against 1 .. 4, each a read of  *)
(* the volatile), interleaved with rounds of displayTask, which runs at a  *)
(* higher priority and advances curdigit.  clock is the comparison that    *)
(* comes next, toggles counts the rounds of displayTask.                   *)

ScanHeld == { {}, {1}, {3}, {2, 5} }

\* digit-select index -> the logical switches it exposes
Mapped(d) ==
    CASE d = 1 -> {1, 2}
      [] d = 2 -> {3, 4}
      [] d = 3 -> {5, 6}
      [] d = 4 -> {7}
      [] OTHER -> {}

ScanInit ==
    /\ m = BootGlobals([e |-> MK5017, md |-> MODEL_GC_1005], rtcFactory)
    /\ pc = "idle"
    /\ micros = 0
    /\ held \in ScanHeld
    /\ mains = TRUE
    /\ iter = 0
    /\ toggles = 0
    /\ ev = [op |-> "boot"]
    /\ clock = 0
    /\ hist = NoHist

\* one round of displayTask: the next digit is driven
ScanRefresh ==
    /\ toggles < ScanMaxRefresh
    /\ m' = [m EXCEPT !.curdigit = IF @ + 1 >= NUM_DIGITS THEN 0 ELSE @ + 1]
    /\ toggles' = toggles + 1
    /\ UNCHANGED <<pc, micros, held, mains, iter, ev, clock, hist>>

\* CheckSwitches: digitalRead(pinKA), digitalRead(pinKB), micros()
ScanSample ==
    /\ pc = "idle"
    /\ iter < ScanMaxCalls
    /\ pc' = "sampled"
    /\ micros' = Add32(micros, ScanMicros)
    /\ ev' = [op |-> "sample", d |-> m.curdigit,
              KA |-> RawKA(held, m.curdigit), KB |-> RawKB(held, m.curdigit)]
    /\ clock' = 1
    /\ UNCHANGED <<m, held, mains, iter, toggles, hist>>

\* the rest of CheckSwitches once the comparisons have selected index to
\* (0: none)
ScanApply(to) ==
    \E in \in { [Inputs(m, to, micros, FALSE, "fresh")
                 EXCEPT !.KA = ev.KA, !.KB = ev.KB] } :
    \E s1 \in { CheckSwitches(m, in) } :
        /\ m' = s1
        /\ pc' = "idle"
        /\ ev' = [op |-> "applied", d |-> ev.d, to |-> to,
                  KA |-> ev.KA, KB |-> ev.KB,
                  touched |-> {i \in 1..7 : s1.sw[i] # m.sw[i]}]
        /\ iter' = iter + 1
        /\ clock' = 0
        /\ UNCHANGED <<micros, held, mains, toggles, hist>>

\* CheckSwitches: if (curdigit == clock) ... else ...
ScanCompare ==
    /\ pc = "sampled"
    /\ IF m.curdigit = clock
       THEN ScanApply(clock)
       ELSE IF clock < 4
            THEN /\ clock' = clock + 1
                 /\ UNCHANGED <<m, pc, micros, held, mains, iter, toggles,
                                ev, hist>>
            ELSE ScanApply(0)

ScanNext ==
    \/ ScanRefresh
    \/ ScanSample
    \/ ScanCompare

SpecScan == ScanInit /\ [][ScanNext]_vars

\* a CheckSwitches call changes no multiplexed switch but those mapped to
\* the index its comparisons selected
ScanTouchesSelected ==
    ev.op = "applied" => ev.touched \subseteq Mapped(ev.to)

\* C24: under every interleaving of loop() with displayTask, a sample of
\* the two sense lines taken while digit-select index d is active is
\* applied only to the switches mapped to d, and a CheckSwitches call
\* changes no other multiplexed switch.
C24_SampleAppliedToItsDigit ==
    ev.op = "applied" =>
        /\ ev.to \in {0, ev.d}
        /\ ev.touched \subseteq Mapped(ev.d)

----------------------------------------------------------------------------
(* SpecTone: MK5017 emulation from power-up two seconds before the alarm   *)
(* time; the user moves the snooze and the alarm switch while loop() runs. *)

ToneEeproms == { [e |-> MK5017, md |-> MODEL_GC_1005],
                 [e |-> MK5017, md |-> MODEL_GC_1092D] }
ToneRtc == [rtcFactory EXCEPT !.h = 6, !.mi = 59, !.s = 58,
                              !.a1 = DateTime(1, 1, 7, 0, 0),
                              !.a2 = DateTime(1, 1, 8, 30, 0)]
ToneHeld == { {}, {6} }
ToneSwitches == {5, 6}
ToneScanDigits == {0, 3}

ToneInit ==
    /\ \E ee \in ToneEeproms : m = BootGlobals(ee, ToneRtc)
    /\ pc = "setup"
    /\ micros = 0
    /\ held \in ToneHeld
    /\ mains = TRUE
    /\ iter = 0
    /\ toggles = 0
    /\ ev = [op |-> "boot", seen |-> NoSeen]
    /\ clock = 0
    /\ hist = NoHist

ToneSetup == iter < ToneMaxIter /\ Setup(<<1, 2, 3, 4, 1, 2, 3, 4>>, TRUE)

\* the user opens or closes a switch
ToneToggle(i) ==
    /\ pc = "loop"
    /\ toggles < ToneMaxToggles
    /\ held' = IF i \in held THEN held \ {i} ELSE held \cup {i}
    /\ toggles' = toggles + 1
    /\ UNCHANGED <<m, pc, micros, mains, iter, ev, clock, hist>>

\* the pulse seen last: the one of this iteration (s5 is the state after
\* DispatchSwitches) or the one kept in ev
LastPulse(s5) ==
    IF s5.halfSecond THEN "half"
    ELSE IF s5.topOfSecond THEN "top"
    ELSE IF ev.op = "tone" THEN ev.lastPulse
    ELSE "none"

\* one iteration of loop(); ev.engine is what the alarm engine finds when
\* its turn comes
ToneStep(cd) ==
    /\ pc = "loop"
    /\ iter < ToneMaxIter
    /\ \E el \in { Elapse(m, LoopMicros) } :
       \E s0 \in { [m EXCEPT !.tz = el.tz, !.rtc = el.rtc,
                             !.curdigit = cd] } :
       \E in \in { Inputs(s0, cd, Add32(micros, LoopMicros), el.tick,
                          "fresh") } :
       \E s5 \in { LoopDispatched(s0, in) } :
       \E s1 \in { loop(s0, in) } :
           /\ ~s1.restart
           /\ m' = s1
           /\ micros' = in.now
           /\ ev' = [op |-> "tone", tick |-> el.tick,
                     top |-> s5.topOfSecond, half |-> s5.halfSecond,
                     lastPulse |-> LastPulse(s5),
                     runs |-> s5.info.model # MODEL_GC_1092D,
                     engine |-> [alarmState |-> s5.alarmState,
                                 alarmEnabled |-> s5.alarmEnabled,
                                 toneActive |-> m.toneActive],
                     seen |-> NoSeen]
    /\ iter' = iter + 1
    /\ UNCHANGED <<pc, held, mains, toggles, clock, hist>>

ToneNext ==
    \/ ToneSetup
    \/ \E i \in ToneSwitches : ToneToggle(i)
    \/ \E cd \in ToneScanDigits : ToneStep(cd)

SpecTone == ToneInit /\ [][ToneNext]_vars

\* C25: at the end of every loop() iteration the tone is active only if
\* the engine is SOUNDING; while SOUNDING a burst is started at the
\* top-of-second pulse and stopped at the half-second pulse, so the tone is
\* never active after a half-second pulse and before the next
\* top-of-second pulse.
C25_ToneOnlyInBurst ==
    ev.op = "tone" =>
        /\ m.toneActive =>
              (m.alarmState = "ALARM_SOUNDING" /\ ev.lastPulse = "top")
        /\ (ev.top /\ ~ev.half /\ m.alarmState = "ALARM_SOUNDING")
              => m.toneActive
        /\ ev.half => ~m.toneActive

C25_Witness ==
    /\ ev.op = "tone" /\ ev.half /\ ev.engine.toneActive
    /\ m.alarmState = "ALARM_SOUNDING" /\ ~m.toneActive

\* C26: in every loop() iteration in which the alarm engine finds the
\* alarm disabled, whatever state it is in (ARMED, SOUNDING, SNOOZE or
\* IDLE), it ends in IDLE and the tone is silent at the end of the
\* iteration.
C26_DisabledGoesIdle ==
    (ev.op = "tone" /\ ev.runs /\ ~ev.engine.alarmEnabled)
        => (m.alarmState = "ALARM_IDLE" /\ ~m.toneActive)

C26_Witness ==
    /\ ev.op = "tone" /\ ev.runs /\ ~ev.engine.alarmEnabled
    /\ ev.engine.alarmState = "ALARM_SNOOZE"
    /\ m.alarmState = "ALARM_IDLE" /\ ~m.toneActive

----------------------------------------------------------------------------
\* C27: while the stored model is unset (MODEL_BOGUS) the alarm logic does
\* not run: at the end of every loop() iteration the alarm state is IDLE
\* and the tone is silent, so that no snooze request is acted on either.
C27_UnsetModelNoAlarm ==
    (ev.op = "loop" /\ ~ev.restart /\ m.info.model = MODEL_BOGUS)
        => (m.alarmState = "ALARM_IDLE" /\ ~m.toneActive)

----------------------------------------------------------------------------
(* Editor exit, on the iterations of SpecEditor that found the editor      *)
(* active and did not end in the restart of the 3x time-set gesture.       *)

EditorActive(target) ==
    /\ ev.op = "loop" /\ ev.editing /\ ev.target = target
    /\ (ev.restart => ev.stored)

\* the edit was committed in this iteration
Committed ==
    IF ev.target = "EDIT_MODEL" THEN ev.stored
    ELSE ~ev.left.inEditMode \/ ev.left.target # ev.target

\* hold went from engaged to released in this iteration
HoldReleased == SW_HOLD \in ev.flip /\ ~ev.hold

\* TIME: committed when hold is not engaged and either the time-set
\* switch is released or hold has just released
TimeExitAsClaimed ==
    EditorActive("EDIT_TIME") =>
        (Committed <=> (~ev.hold /\ (~ev.timeSet \/ HoldReleased)))

\* TIME as the code has it: committed when hold is not engaged and the
\* time-set switch is released
TimeExitNeedsRelease ==
    EditorActive("EDIT_TIME") =>
        (Committed <=> (~ev.hold /\ ~ev.timeSet))

\* ALARM and DATE: committed when the alarm/date switch is released
AlarmDateExit ==
    (EditorActive("EDIT_ALARM") \/ EditorActive("EDIT_DATE")) =>
        (Committed <=> ~ev.alarmSet)

\* MODEL: committed only on a fresh press of the time-set switch
ModelExit ==
    EditorActive("EDIT_MODEL") => (Committed => ev.press)

\* C28: a TIME edit is committed when the time-set switch is released or,
\* when it runs with hold engaged, when hold releases; an ALARM or DATE
\* edit when the alarm/date switch is released; a MODEL edit only on a
\* fresh press of the time-set switch; no edit is committed while its exit
\* condition is not met.
C28_EditorExit ==
    TimeExitAsClaimed /\ AlarmDateExit /\ ModelExit

----------------------------------------------------------------------------
(* SpecExit: commitSetMode applied to a TIME, ALARM or DATE edit entered   *)
(* at any second of the minute, for each kind of model, with the auto-date *)
(* switch and the touch date display of the GC-1092D either way.           *)

ExitModels == {MODEL_GC_1005, MODEL_GC_1092D, MODEL_GC_1092A}

\* the editor just entered: the device after setup() with the backup clock
\* at day d, hour h and second sec and after the first handleTouchEvent of
\* loop(), the auto-date switch of the GC-1092D at k6, then with touch the
\* sensor callback and handleTouchEvent on the idle clock, then
\* enterSetMode.  Every second of 10:20 on 1 January for each model and
\* target; for the DATE edit of the GC-1092D also every hour of the day on
\* 1 and 31 January.
ExitInit ==
    /\ \E md \in ExitModels, sec \in 0..MaxExitSecond, hold \in BOOLEAN,
          k6 \in BOOLEAN, touch \in BOOLEAN,
          target \in {"EDIT_TIME", "EDIT_ALARM", "EDIT_DATE"},
          h \in 0..MaxExitHour, d \in {1, 31} :
           LET base == handleTouchEvent(
                           setupEmulationInit(
                               setupConfigInit(
                                   BootGlobals(
                                       [e |-> MK5017, md |-> md],
                                       [BootRtc EXCEPT
                                          !.d = d, !.h = h, !.s = sec,
                                          !.a2 = DateTime(1, d, 23, 59, 0)])),
                               [rtcOK |-> TRUE, wifiOK |-> TRUE,
                                ntpTime |-> tzBoot]),
                           0)
               idle == [base EXCEPT !.sw[SW_HOLD].state = hold,
                                    !.sw[6].state = k6,
                                    !.autoDate = IF md = MODEL_GC_1092D
                                                 THEN ~k6 ELSE @]
           IN  /\ (md # MODEL_GC_1092D) => (k6 /\ ~touch)
               /\ (h # 10 \/ d # 1) =>
                      /\ md = MODEL_GC_1092D /\ target = "EDIT_DATE"
                      /\ sec = 30 /\ ~hold /\ k6 /\ ~touch
               /\ m = enterSetMode(
                          IF touch
                          THEN handleTouchEvent(gotTouchEvent(idle), 0)
                          ELSE idle,
                          target)
               /\ mains = ~hold
    /\ pc = "edit"
    /\ micros = 0
    /\ held = {}
    /\ iter = 0
    /\ toggles = 0
    /\ ev = NoEv
    /\ clock = 0
    /\ hist = NoHist

\* a second passes with the editor open, the hour/month switch at k3 and
\* the minute/day switch at k4: the tick part of handleSetMode
ExitSecond(k3, k4) ==
    /\ pc = "edit"
    /\ clock < MaxExitWait
    /\ m' = [EditTick([m EXCEPT !.tz = tzAdvance(m.tz),
                                !.rtc = rtcAdvance(m.rtc),
                                !.sw[3].state = k3, !.sw[4].state = k4,
                                !.topOfSecond = TRUE])
             EXCEPT !.topOfSecond = FALSE]
    /\ clock' = clock + 1
    /\ UNCHANGED <<pc, micros, held, mains, iter, toggles, ev, hist>>

ExitCommit ==
    /\ pc = "edit"
    /\ m' = commitSetMode(m)
    /\ pc' = "committed"
    /\ ev' = [op |-> "commit", target |-> m.activeTarget,
              editing |-> m.inEditMode, autoDate |-> m.autoDate,
              touchoverride |-> m.touchoverride,
              datecounter |-> m.datecounter,
              dateChanged |-> m.dateChanged, dateSet |-> m.dateSet,
              month |-> ToInt2(m.displaystring, 1),
              day |-> ToInt2(m.displaystring, 3),
              tz |-> m.tz, rtc |-> m.rtc]
    /\ UNCHANGED <<micros, held, mains, iter, toggles, clock, hist>>

ExitNext ==
    \/ \E k3 \in BOOLEAN, k4 \in BOOLEAN : ExitSecond(k3, k4)
    \/ ExitCommit

SpecExit == ExitInit /\ [][ExitNext]_vars

\* the sequencer run at the end of the commit shows the date: GC-1092D, the
\* second of the minute ends in 8 or 9, and either auto date is on with no
\* touch date display pending or a touch date display has more than one
\* second left
DateShownAtCommit ==
    /\ m.info.model = MODEL_GC_1092D
    /\ tzSecond(m.tz) % 10 \in {8, 9}
    /\ \/ ev.autoDate /\ ~ev.touchoverride
       \/ ev.touchoverride /\ ev.datecounter > 1

\* C29 as stated: after every TIME, ALARM or DATE commit the editor is
\* idle and the display mode is TIME, for every model and every second of
\* the minute.
C29_CommitLeavesTime ==
    (ev.op = "commit" /\ ev.editing) =>
        (~m.inEditMode /\ m.currentDisplayMode = "MODE_TIME")

\* C29 amended: after every TIME, ALARM or DATE commit the editor is idle;
\* the display mode is TIME, except on the GC-1092D when the sequencer run
\* that ends the commit shows the date, where it is DATE.
C29_CommitLeavesTimeOrAutoDate ==
    (ev.op = "commit" /\ ev.editing) =>
        /\ ~m.inEditMode
        /\ m.currentDisplayMode =
               IF DateShownAtCommit THEN "MODE_DATE" ELSE "MODE_TIME"

C29_Witness ==
    /\ ev.op = "commit" /\ ev.editing /\ ev.target = "EDIT_DATE"
    /\ ev.autoDate /\ ~ev.touchoverride
    /\ m.info.model = MODEL_GC_1092D
    /\ tzSecond(m.tz) = 38
    /\ ~m.inEditMode /\ m.currentDisplayMode = "MODE_DATE"

----------------------------------------------------------------------------
(* The display mode while the editor is active, at the end of each         *)
(* iteration of SpecEditor.                                                *)

EditorShown ==
    IF m.activeTarget = "EDIT_MODEL"
    THEN m.currentDisplayMode = "MODE_MESSAGE"
         /\ m.messageindex \in 0..(MODEL_MSG_COUNT - 1)
    ELSE m.currentDisplayMode = "MODE_SET"

EditorOpen == ev.op = "loop" /\ ~ev.restart /\ m.inEditMode

\* every model but the GC-1092D
EditorDisplayOtherModels ==
    (EditorOpen /\ m.info.model # MODEL_GC_1092D) => EditorShown

\* C30: whenever the editor is active with target TIME, ALARM or DATE the
\* display mode is SET, and whenever it is active with target MODEL the
\* display mode is MESSAGE with an index in 0..3; no switch change, touch
\* event or sequencer tick changes the display mode while the editor is
\* active.
C30_EditorDisplayMode ==
    EditorOpen => EditorShown

----------------------------------------------------------------------------
(* SpecShow: the touch DATE display and the auto date.  WIFI emulation and *)
(* MK5017 emulation with the GC-1092D and the GC-1005, from power-up with  *)
(* the auto-date switch open or closed; loop() iterations ShowMicros apart *)
(* and crossings of the touch sensor.  clock counts the second edges since *)
(* the touch interpreter last started a DATE display (-1: none running, or *)
(* a later touch or a switch has changed the display mode since).          *)

ShowEeproms == { [e |-> WIFI, md |-> MODEL_GC_1005],
                 [e |-> MK5017, md |-> MODEL_GC_1092D],
                 [e |-> MK5017, md |-> MODEL_GC_1005] }

\* the backup clock on a Wednesday at 10:20:05, and on the Saturday after
\* it at 20:00:05 (a blank day and outside the display window of the WIFI
\* schedule)
ShowRtc == [BootRtc EXCEPT !.s = 5]
ShowRtcBlank == [BootRtc EXCEPT !.d = 4, !.h = 20, !.mi = 0, !.s = 5,
                                !.a2 = DateTime(1, 4, 22, 0, 0)]

ShowHeld == { {}, {6} }

\* the scan index a CheckSwitches call finds: one that reads no switch, and
\* the one of the auto-date switch
ShowScanDigits == {0, 3}

\* the countdown a touch starts
ShowSeconds(s) ==
    IF s.info.emulation = WIFI THEN showdatesec ELSE HW_DATE_SECONDS

ShowInit ==
    /\ \E eeprom \in ShowEeproms, rtc \in {ShowRtc, ShowRtcBlank} :
           /\ (eeprom.e = WIFI) => (rtc = ShowRtc)
           /\ m = BootGlobals(eeprom, rtc)
    /\ held \in ShowHeld
    /\ pc = "setup"
    /\ micros = 0
    /\ mains = TRUE
    /\ iter = 0
    /\ toggles = 0
    /\ ev = [op |-> "boot"]
    /\ clock = -1
    /\ hist = NoHist

\* one iteration of loop() with the scan at cd; ev keeps what the sequencer
\* was given and what it left on a second edge, what the touch interpreter was given and what
\* it left, and the number of this second edge since the DATE display was
\* started by a touch (0: not a counted edge)
ShowStep(cd) ==
    /\ pc = "loop"
    /\ iter < ShowMaxIter
    /\ \E el \in { Elapse(m, ShowMicros) } :
       \E s0 \in { [m EXCEPT !.tz = el.tz, !.rtc = el.rtc,
                             !.curdigit = cd] } :
       \E in \in { Inputs(s0, cd, Add32(micros, ShowMicros),
                          el.tick, "fresh") } :
       \E given \in { CheckSwitches(s0, in) } :
       \E left \in { updateDisplayStateIfNeeded(given) } :
       \E s3 \in { updateDisplayValue(handleTimedDispatches(given, in)) } :
       \E s4 \in { handleTouchEvent(s3, Millis(in.now)) } :
       \E s1 \in { loop(s0, in) } :
       \E n \in { IF el.tick /\ clock >= 0 THEN clock + 1 ELSE 0 } :
       \E started \in { s3.currentDisplayMode = "MODE_TIME"
                        /\ s4.currentDisplayMode = "MODE_DATE" } :
           /\ ~s1.restart
           /\ m' = s1
           /\ micros' = in.now
           /\ ev' = [op |-> "loop", tick |-> el.tick, n |-> n,
                     second |-> tzSecond(given.tz),
                     mode |-> given.currentDisplayMode,
                     datecounter |-> given.datecounter,
                     autoDate |-> given.autoDate,
                     touchoverride |-> given.touchoverride,
                     inEditMode |-> given.inEditMode,
                     leftMode |-> left.currentDisplayMode,
                     leftCounter |-> left.datecounter,
                     leftIndex |-> left.messageindex,
                     active |-> s4.lastTouchActive,
                     wasActive |-> s3.lastTouchActive,
                     touchMode |-> s3.currentDisplayMode,
                     touchLeftMode |-> s4.currentDisplayMode,
                     touchLeftIndex |-> s4.messageindex,
                     touchLeftCounter |-> s4.datecounter,
                     started |-> started]
           /\ clock' = IF s1.currentDisplayMode # s4.currentDisplayMode
                       THEN -1
                       ELSE IF started THEN 0
                       ELSE IF s4.currentDisplayMode # s3.currentDisplayMode
                               \/ n > ShowSeconds(m)
                            THEN -1
                            ELSE IF n > 0 THEN n ELSE clock
    /\ iter' = iter + 1
    /\ UNCHANGED <<pc, held, mains, toggles, hist>>

ShowNext ==
    \/ \E start \in SeqStarts : SeqSetup(start)
    \/ Touch
    \/ \E cd \in ShowScanDigits : ShowStep(cd)

SpecShow == ShowInit /\ [][ShowNext]_vars

\* a counted second edge of a DATE display started by a touch
CountedEdge == ev.op = "loop" /\ ev.tick /\ ev.n > 0

\* edges 1..N leave DATE with the countdown at N less the edge number, and
\* edge N + 1 leaves TIME or the blank message
DateForSeconds(N) ==
    /\ ev.n <= N => /\ ev.leftMode = "MODE_DATE"
                    /\ ev.leftCounter = N - ev.n
    /\ ev.n = N + 1 =>
          \/ ev.leftMode = "MODE_TIME"
          \/ ev.leftMode = "MODE_MESSAGE" /\ ev.leftIndex = MSG_BLANK

\* WIFI emulation: DATE for showdatesec edges, TIME or blank at the next
ShowNetwork ==
    (CountedEdge /\ m.info.emulation = WIFI) => DateForSeconds(showdatesec)

\* MK5017 emulation, GC-1092D: DATE for HW_DATE_SECONDS - 1 edges, TIME at
\* the next
ShowAutoDateModel ==
    (CountedEdge /\ m.info.model = MODEL_GC_1092D /\ m.info.emulation = MK5017) =>
        /\ ev.n < HW_DATE_SECONDS =>
              /\ ev.leftMode = "MODE_DATE"
              /\ ev.leftCounter = HW_DATE_SECONDS - ev.n
        /\ ev.n = HW_DATE_SECONDS =>
              /\ ev.leftMode = "MODE_TIME"
              /\ ev.leftCounter = 0

\* MK5017 emulation, the other models: updateDisplayValue puts the
\* display back to TIME in the iteration after the touch, so the touch
\* interpreter is never given a DATE display
ShowOtherModels ==
    (ev.op = "loop" /\ m.info.model # MODEL_GC_1092D
                    /\ m.info.emulation = MK5017) =>
        ev.touchMode # "MODE_DATE"

\* C31: a DATE display started by a touch with countdown N (showdatesec in
\* WIFI emulation, 5 in MK5017 emulation) and no further touch stays DATE
\* for exactly N second edges, the countdown dropping by one per edge, and
\* the display is back to TIME (or to the scheduled blank) at the edge that
\* follows.
C31_DateForCountdown ==
    CountedEdge => DateForSeconds(ShowSeconds(m))

----------------------------------------------------------------------------
(* The auto date of the GC-1092D and the blanking in MK5017 emulation, on  *)
(* the second edges of SpecShow.                                           *)

\* a second edge of the sequencer in MK5017 emulation
HardwareEdge == ev.op = "loop" /\ ev.tick /\ m.info.emulation = MK5017

\* a second edge on the GC-1092D with the editor idle and no touch override
AutoDateEdge ==
    /\ HardwareEdge /\ m.info.model = MODEL_GC_1092D
    /\ ~ev.inEditMode /\ ~ev.touchoverride

DateSecond == ev.second % 10 \in {8, 9}

\* auto date on: DATE in the seconds ending in 8 and 9, TIME in the others
AutoDateOn ==
    (AutoDateEdge /\ ev.autoDate) =>
        ev.leftMode = IF DateSecond THEN "MODE_DATE" ELSE "MODE_TIME"

\* auto date off: the sequencer does not switch the display to DATE
AutoDateOff ==
    (AutoDateEdge /\ ~ev.autoDate /\ ev.mode # "MODE_DATE") =>
        ev.leftMode # "MODE_DATE"

\* MK5017 emulation, every model: the sequencer does not blank the display
NeverBlanked ==
    (HardwareEdge /\ ev.mode # "MODE_MESSAGE") => ev.leftMode # "MODE_MESSAGE"

\* C32: MK5017 emulation, GC-1092D, auto date on, editor idle, no touch
\* override: at every second edge the sequencer leaves DATE in the two
\* seconds of each ten that end in 8 and 9 and TIME in the other eight;
\* with auto date off and no touch override it never switches the display
\* to DATE; time-window and weekend blanking never blank the display in
\* this emulation.
C32_AutoDateWindow ==
    AutoDateOn /\ AutoDateOff /\ NeverBlanked

C32_Witness ==
    /\ AutoDateEdge /\ ev.autoDate /\ ev.second = 18
    /\ ev.mode = "MODE_TIME" /\ ev.leftMode = "MODE_DATE"
    /\ IsWeekend(m.tz) /\ ~WithinDisplayWindow(m.tz)

----------------------------------------------------------------------------
(* The touch interpreter on the loop() iterations of SpecShow: ev.touchMode *)
(* is the display mode handleTouchEvent was given, ev.wasActive and         *)
(* ev.active the fused signal it had seen before and has seen now.          *)

\* the fused signal went from inactive to active in this iteration
TouchRises == ev.op = "loop" /\ ~ev.wasActive /\ ev.active

\* one step of the display cycle
CycleStep ==
    CASE ev.touchMode = "MODE_TIME" ->
            /\ ev.touchLeftMode = "MODE_DATE"
            /\ ev.touchLeftCounter = ShowSeconds(m)
      [] ev.touchMode = "MODE_DATE" /\ m.info.emulation = WIFI ->
            /\ ev.touchLeftMode = "MODE_MESSAGE"
            /\ ev.touchLeftIndex = MSG_BLANK
      [] ev.touchMode = "MODE_MESSAGE" /\ m.info.emulation = WIFI ->
            ev.touchLeftMode = "MODE_TIME"
      [] OTHER -> ev.touchLeftMode = ev.touchMode

\* C33: the fused touch signal is edge-triggered: each inactive-to-active
\* transition advances the display cycle by exactly one step, TIME to DATE
\* (starting the countdown), DATE to the blank message and blank message
\* to TIME in WIFI emulation, and only TIME to DATE in MK5017 emulation;
\* while the touch stays active, and on its release, the touch interpreter
\* does not change the display mode.
C33_TouchEdgeTriggered ==
    (ev.op = "loop") =>
        IF TouchRises THEN CycleStep ELSE ev.touchLeftMode = ev.touchMode

C33_Witness ==
    /\ TouchRises /\ m.info.emulation = WIFI
    /\ ev.touchMode = "MODE_DATE"
    /\ ev.touchLeftMode = "MODE_MESSAGE" /\ ev.touchLeftIndex = MSG_BLANK

----------------------------------------------------------------------------
(* The DATE commit, on the commits of SpecExit: ev keeps the buffer and    *)
(* the time source, battery-backed clock and flags the commit was given.   *)

DateCommit == ev.op = "commit" /\ ev.editing /\ ev.target = "EDIT_DATE"

\* the buffer was not changed: nothing is written
DateUnchangedKeeps ==
    (DateCommit /\ ~ev.dateChanged) =>
        /\ m.tz = ev.tz /\ m.rtc = ev.rtc /\ m.dateSet = ev.dateSet

\* the buffer was changed: minute and second kept, date-set marked
DateChangedKeepsMinute ==
    (DateCommit /\ ev.dateChanged) =>
        /\ tzMinute(m.tz) = tzMinute(ev.tz)
        /\ tzSecond(m.tz) = tzSecond(ev.tz)
        /\ m.dateSet

\* the buffer was changed: the hour is the current hour less 12 when that
\* is above 12, and the current hour otherwise, 12 included
DateChangedHour ==
    (DateCommit /\ ev.dateChanged) =>
        tzHour(m.tz) = IF tzHour(ev.tz) > 12 THEN tzHour(ev.tz) - 12
                       ELSE tzHour(ev.tz)

\* the buffer was changed and holds a day the month has: the date becomes
\* the buffer's
DateChangedValidDay ==
    (DateCommit /\ ev.dateChanged
                /\ DaysBefore(ev.month) + ev.day <= IF ev.month = 12 THEN 365 ELSE DaysBefore(ev.month + 1)) =>
        /\ tzMonth(m.tz) = ev.month
        /\ tzDay(m.tz) = ev.day

\* C34: DATE commit: if the date buffer was changed during the edit, the
\* date of the time source becomes the buffer's month and day, the minute
\* and second are unchanged, the resulting hour is below 12 for every
\* current hour 0..23, and date-set is marked; if the buffer was not
\* changed, the time source, the battery-backed clock and the date-set
\* flag are all left unchanged.
C34_DateCommit ==
    DateCommit =>
        IF ev.dateChanged
        THEN /\ tzMonth(m.tz) = ev.month
             /\ tzDay(m.tz) = ev.day
             /\ tzMinute(m.tz) = tzMinute(ev.tz)
             /\ tzSecond(m.tz) = tzSecond(ev.tz)
             /\ tzHour(m.tz) < 12
             /\ m.dateSet
        ELSE /\ m.tz = ev.tz /\ m.rtc = ev.rtc /\ m.dateSet = ev.dateSet

----------------------------------------------------------------------------
(* displayTask against loop(), on the steps of SpecScan: a step that adds  *)
(* to toggles is one round of displayTask.                                 *)

\* the globals CheckSwitches reads: the scan index and the switch records
LoopReads == <<m.curdigit, m.sw, m.holdLastRead, m.holdLastTransition>>

\* the digit displayTask drives is one of the NUM_DIGITS
RefreshIndexInRange == m.curdigit \in 0..(NUM_DIGITS - 1)

\* every round advances the index cyclically by one
RefreshAdvances ==
    [][toggles' # toggles =>
           m'.curdigit = (m.curdigit + 1) % NUM_DIGITS]_vars

\* a round is possible wherever loop() stands
RefreshNeverWaits ==
    (toggles < ScanMaxRefresh) => ENABLED ScanRefresh

\* a round changes nothing that CheckSwitches reads
RefreshUnseenByLoop ==
    [][toggles' # toggles => LoopReads' = LoopReads]_vars

\* C35: displayTask and loop() share no data other than the display buffer:
\* displayTask writes no variable that loop() reads, every round outputs
\* the buffer entry of a digit index in 0..5 and then advances the index
\* cyclically by one, and a round never waits on loop().
C35_OnlyBufferShared ==
    /\ []RefreshIndexInRange
    /\ [](RefreshNeverWaits)
    /\ RefreshAdvances
    /\ RefreshUnseenByLoop

----------------------------------------------------------------------------
(* The capacitive sensor's callback against handleTouchEvent.  The         *)
(* callback is an interrupt: it runs between any two steps of loop(),      *)
(* also between the read of touchActive and the comparison with            *)
(* lastTouchActive in handleTouchEvent.  ev keeps the side of the          *)
(* threshold the sensor is on (finger), the effective signal               *)
(* handleTouchEvent has computed, whether handleTouchEvent has read        *)
(* touchActive since the callback last wrote it (seen), and the touch      *)
(* events since the flag last became active (delivered).                   *)

TouchMaxIter == 7        \* loop() iterations in a SpecTouch run
TouchMaxCrossings == 4   \* threshold crossings of the sensor in a SpecTouch run
TouchMicros == 30000     \* microseconds from one loop() iteration to the next in SpecTouch
TouchStart == 1000000    \* micros() when setup returns in SpecTouch

TouchEeproms == { [e |-> WIFI, md |-> MODEL_GC_1005],
                  [e |-> MK5017, md |-> MODEL_GC_1092D] }

\* the scan index a CheckSwitches call finds: one that reads no switch, and
\* the one of sw_5
TouchScanDigits == {0, 3}

\* the state setup leaves
TouchInit ==
    /\ \E eeprom \in TouchEeproms :
           m = setupEmulationInit(
                   setupConfigInit(BootGlobals(eeprom, BootRtc)),
                   [rtcOK |-> TRUE, wifiOK |-> TRUE, ntpTime |-> tzBoot])
    /\ pc = "loop"
    /\ micros = TouchStart
    /\ held = {}
    /\ mains = TRUE
    /\ iter = 0
    /\ toggles = 0
    /\ ev = [finger |-> FALSE, effective |-> FALSE, seen |-> FALSE,
             delivered |-> 0]
    /\ clock = 0
    /\ hist = NoHist

\* the sensor crosses the threshold
TouchSensor ==
    /\ toggles < TouchMaxCrossings
    /\ toggles' = toggles + 1
    /\ ev' = [ev EXCEPT !.finger = ~@]
    /\ UNCHANGED <<m, pc, micros, held, mains, iter, clock, hist>>

\* sw_5 is closed or opened
TouchSwitch ==
    /\ m.info.emulation = WIFI
    /\ held' = IF 5 \in held THEN {} ELSE {5}
    /\ UNCHANGED <<m, pc, micros, mains, iter, toggles, ev, clock, hist>>

\* the callback, raised while the sensor is on the armed side of the
\* threshold
TouchCallback ==
    /\ ev.finger = m.testingLower
    /\ m' = gotTouchEvent(m)
    /\ m' # m
    /\ ev' = [ev EXCEPT !.seen = FALSE,
                        !.delivered = IF m'.touchActive THEN 0 ELSE @]
    /\ UNCHANGED <<pc, micros, held, mains, iter, toggles, clock, hist>>

\* loop() up to the computation of effectiveTouchActive, the scan at cd
TouchRead(cd) ==
    /\ pc = "loop"
    /\ iter < TouchMaxIter
    /\ \E s0 \in { [m EXCEPT !.curdigit = cd] } :
       \E in \in { Inputs(s0, cd, Add32(micros, TouchMicros),
                          FALSE, "fresh") } :
       \E given \in { CheckSwitches(s0, in) } :
       \E h \in { IF given.info.emulation = WIFI
                  THEN TouchHeuristic(given, Millis(in.now))
                  ELSE [st |-> given, computed |-> FALSE] } :
           /\ m' = h.st
           /\ micros' = in.now
           /\ ev' = [ev EXCEPT !.effective = h.st.touchActive \/ h.computed,
                               !.seen = TRUE]
    /\ pc' = "read"
    /\ iter' = iter + 1
    /\ UNCHANGED <<held, mains, toggles, clock, hist>>

\* the rest of handleTouchEvent: the comparison with lastTouchActive
TouchApply ==
    /\ pc = "read"
    /\ m' = TouchEdge(m, ev.effective)
    /\ ev' = [ev EXCEPT !.delivered =
                 IF ~m.lastTouchActive /\ m'.lastTouchActive
                 THEN @ + 1 ELSE @]
    /\ pc' = "loop"
    /\ UNCHANGED <<micros, held, mains, iter, toggles, clock, hist>>

TouchNext ==
    \/ TouchSensor
    \/ TouchSwitch
    \/ TouchCallback
    \/ \E cd \in TouchScanDigits : TouchRead(cd)
    \/ TouchApply

SpecTouch == TouchInit /\ [][TouchNext]_vars

\* the sticky flag is the negation of the armed direction
FlagNegatesDirection == m.touchActive = ~m.testingLower

\* the callback writes the flag only when handleTouchEvent has read the
\* value it wrote before
FlipAfterRead == [][m'.touchActive # m.touchActive => ev.seen]_vars
FlipAfterReadHardware ==
    [][(m.info.emulation = MK5017 /\ m'.touchActive # m.touchActive)
           => ev.seen]_vars

\* the callback writes the flag only when lastTouchActive has caught up
\* with it
FlipAfterRecorded ==
    [][m'.touchActive # m.touchActive
           => m.lastTouchActive = m.touchActive]_vars

\* no second touch event while the flag is active, and exactly one when it
\* returns to inactive
DeliveredOnce ==
    /\ [](m.touchActive => ev.delivered <= 1)
    /\ [][(m.touchActive /\ ~m'.touchActive) => ev.delivered = 1]_vars

\* C36 as stated: the sticky touch flag is always the negation of the armed
\* threshold direction, the callback never writes the flag again before
\* handleTouchEvent has read the value it wrote, and exactly one touch event
\* is delivered between the flag becoming active and its return to
\* inactive, in both emulations and under every interleaving.
C36_HandshakeObserved ==
    /\ []FlagNegatesDirection
    /\ FlipAfterRead
    /\ DeliveredOnce

\* C36 amended: the sticky touch flag is always the negation of the armed
\* threshold direction; the callback writes the flag only when
\* lastTouchActive equals it, which in the MK5017 emulation means that
\* handleTouchEvent has read the value written before; exactly one touch
\* event is delivered between the flag becoming active and its return to
\* inactive, in both emulations and under every interleaving.
C36_HandshakeRecorded ==
    /\ []FlagNegatesDirection
    /\ FlipAfterRecorded
    /\ FlipAfterReadHardware
    /\ DeliveredOnce

\* the flag has been active, its touch event has been delivered, the
\* callback has returned it to inactive while loop() stood between the read
\* and the comparison
C36_Witness ==
    /\ ~m.touchActive
    /\ ev.delivered = 1
    /\ pc = "read"
    /\ ~ev.seen

====
